---- MODULE Spec2Model ----
(***************************************************************************)
(* Session state machine of the PMP practice trainer (src/unnamed/part_001,*)
(* the variant whose helpers live in lib/trainerUtils; the same component  *)
(* is the first file of src/unnamed/part_000).                             *)
(*                                                                         *)
(* React semantics kept by the model: every event handler runs against the *)
(* state of the render that created it, all its setState calls are applied *)
(* as one batch, and the component re-renders before the next event.  An   *)
(* action therefore reads the unprimed variables as the closure values of  *)
(* the handler.  A callback handed to setTimeout keeps the closure of the  *)
(* render in which it was created; the model stores the closure values it  *)
(* reads (idx, sessionQs.length) in the timer queue.  Functional updates   *)
(* (setIdx(i => i + 1)) apply to the state current when the callback runs. *)
(*                                                                         *)
(* Not modelled: questionStart / timeMs (wall-clock time), the texts of    *)
(* questions and choices, and rendering.                                   *)
(***************************************************************************)
EXTENDS Integers, Sequences, FiniteSets, TLC

VARIABLES
  allQuestions,     \* useState([])      the bank
  loadPending,      \* the startup fetch of useEffect has not settled yet
  selectedDomains,  \* useState({People:true,...}) as the set of selected names
  mode,             \* "practice" | "exam"
  sessionSize,      \* useState(40)
  seed,             \* useState(42)
  sessionQs,        \* useState([])
  idx,              \* useState(0)
  started,          \* useState(false)
  finished,         \* useState(false)
  eliminated,       \* useState({})  as the set of choice indices mapped to true
  chosenHistory,    \* useState([])
  firstTryCorrect,  \* useState(null): "null" | "true" | "false"
  results,          \* useState({})  function from question id to result record
  flagged,          \* useState({})  as the set of ids mapped to true
  timers,           \* pending setTimeout(nextQuestion, 220) callbacks, oldest first
  submitted,        \* history: choice indices passed to onChoice for the
                    \* question at the current position, in order
  callIn,           \* the arguments of the helper function under study
  callOut           \* history: what the operation under study returned, one
                    \* entry per call, in call order

\* the state of the component and its history
sessionVars == <<allQuestions, loadPending, selectedDomains, mode, sessionSize,
                 seed, sessionQs, idx, started, finished, eliminated,
                 chosenHistory, firstTryCorrect, results, flagged, timers,
                 submitted>>

\* the call under study of the specifications of the helper functions
callVars == <<callIn, callOut>>

vars == <<sessionVars, callVars>>

-----------------------------------------------------------------------------
(* Bounds of the model *)

\* at most this many delayed advances are pending at once
MaxTimers == 2

\* at most this many ids are flagged at once
MaxFlagged == 2

-----------------------------------------------------------------------------
(* 32-bit integer arithmetic of shuffle, on bit vectors 0..31 (bit 0 = LSB) *)

\* ToInt32 of a number n with -2^31 < n < 2^31, in two's complement
ToInt32(n) ==
  [i \in 0..31 |-> IF i = 31 THEN (IF n < 0 THEN 1 ELSE 0) ELSE (n \div (2^i)) % 2]

\* s << k
Shl(s, k) == [i \in 0..31 |-> IF i >= k THEN s[i - k] ELSE 0]

\* s >>> k
Shr(s, k) == [i \in 0..31 |-> IF i + k <= 31 THEN s[i + k] ELSE 0]

\* a ^ b
Xor(a, b) == [i \in 0..31 |-> (a[i] + b[i]) % 2]

\* value of the bits lo..hi of s, as a natural number
RECURSIVE BitsVal(_, _, _)
BitsVal(s, lo, hi) ==
  IF hi < lo THEN 0 ELSE s[lo] + 2 * BitsVal(s, lo + 1, hi)

\* s ^= s << 13; s ^= s >>> 17; s ^= s << 5
xorshift(s) ==
  LET s1 == Xor(s, Shl(s, 13))
      s2 == Xor(s1, Shr(s1, 17))
  IN  Xor(s2, Shl(s2, 5))

\* variant of SwapIndex that reads s as a signed number: s / 4294967296
\* without the >>> 0
SwapIndexSigned(s, i) ==
  LET hi == BitsVal(s, 16, 30) - 32768 * s[31]
      lo == BitsVal(s, 0, 15)
  IN  (hi * (i + 1) + (lo * (i + 1)) \div 65536) \div 65536

\* Math.floor(((s >>> 0) / 4294967296) * (i + 1)); the quotient is exact in
\* double precision, so this is floor((s >>> 0) * (i + 1) / 2^32), computed on
\* 16-bit halves to stay within 32-bit integers
SwapIndex(s, i) ==
  LET hi == BitsVal(s, 16, 31)
      lo == BitsVal(s, 0, 15)
  IN  (hi * (i + 1) + (lo * (i + 1)) \div 65536) \div 65536

\* [a[i], a[j]] = [a[j], a[i]] with the 0-based indices of the code
Swap(a, i, j) ==
  [a EXCEPT ![i + 1] = a[j + 1], ![j + 1] = a[i + 1]]

\* for (let i = a.length - 1; i > 0; i--) { j = floor(rand() * (i + 1)); swap }
RECURSIVE ShuffleLoop(_, _, _)
ShuffleLoop(a, s, i) ==
  IF i <= 0 THEN a
  ELSE LET s2 == xorshift(s)
       IN  ShuffleLoop(Swap(a, i, SwapIndex(s2, i)), s2, i - 1)

\* variant of SeedOrRandom that ignores the seed argument:
\* let s = Math.floor(Math.random() * 1e9)
SeedIgnored(sd, rnd) == rnd

\* let s = seed ?? Math.floor(Math.random() * 1e9), rnd being the value drawn
\* from Math.random: every caller passes a number (Number(e.target.value), or
\* a Math.floor), which ?? keeps, 0 included
SeedOrRandom(sd, rnd) == sd

shuffle(arr, sd, rnd) ==
  ShuffleLoop(arr, ToInt32(SeedOrRandom(sd, rnd)), Len(arr) - 1)

\* Array.prototype.slice(0, end)
Slice0(a, end) ==
  LET e == IF end < 0 THEN (IF Len(a) + end < 0 THEN 0 ELSE Len(a) + end)
           ELSE (IF end > Len(a) THEN Len(a) ELSE end)
  IN  SubSeq(a, 1, e)

MathMin(a, b) == IF a < b THEN a ELSE b

-----------------------------------------------------------------------------
(* Inputs *)

DOMAINS == {"People", "Process", "Business", "Agile"}

\* a bank as delivered by /questions.json: distinct ids, a domain of DOMAINS,
\* an answerIndex that is an index into the choices
Bank2 ==
  << [id |-> "Q1", domain |-> "People",  answerIndex |-> 2, numChoices |-> 3],
     [id |-> "Q2", domain |-> "Process", answerIndex |-> 0, numChoices |-> 2] >>

\* the choice indices any question of the bank offers
ChoiceIdxs == 0..2

\* what the startup fetch can deliver; <<>> stands for both fetches failing
FetchResults == {Bank2, << >>}

\* values the number inputs of the setup form deliver (Number("") = 0)
SessionSizes == {-1, 0, 40}
Modes == {"practice", "exam"}

\* values Math.floor(Math.random() * 1e9) can return
RandomDraws == {1, 8192}

-----------------------------------------------------------------------------
(* Derived values of a render *)

RECURSIVE FilterSeq(_, _)
FilterSeq(s, doms) ==
  IF s = << >> THEN << >>
  ELSE IF Head(s).domain \in doms
       THEN <<Head(s)>> \o FilterSeq(Tail(s), doms)
       ELSE FilterSeq(Tail(s), doms)

\* allQuestions.filter(q => q && q.domain && selectedDomains[q.domain])
filtered == FilterSeq(allQuestions, selectedDomains)

\* const q = sessionQs[idx]   (undefined when idx is not an index)
HasQ == idx >= 0 /\ idx < Len(sessionQs)
q == sessionQs[idx + 1]

correctIndex(question) == question.answerIndex

NoResults == [id \in {} |-> 0]

-----------------------------------------------------------------------------
(* Helpers of the handlers *)

\* variant of TriesOf without the floor: const tries = chosenHistory.length
TriesOfNoFloor(hist) == Len(hist)

\* const tries = Math.max(1, chosenHistory.length || 1)
TriesOf(hist) ==
  LET n == IF Len(hist) = 0 THEN 1 ELSE Len(hist)
  IN  IF n < 1 THEN 1 ELSE n

\* recordResult(isCorrect): the value of results after
\* setResults(prev => ({...prev, [question.id]: {...}})), computed from the
\* chosenHistory of the render (the pending setChosenHistory is not visible)
recordResult(isCorrect) ==
  IF ~HasQ THEN results
  ELSE LET tries == TriesOf(chosenHistory)
           r == [firstTryCorrect |-> (isCorrect /\ tries = 1),
                 tries |-> tries,
                 chosenHistory |-> chosenHistory]
       IN  [id \in DOMAIN results \cup {q.id} |->
              IF id = q.id THEN r ELSE results[id]]

\* variant of atEnd with the comparison off by one: idx + 1 > sessionQs.length
atEndOffByOne(cidx, clen) == cidx + 1 > clen

\* const atEnd = idx + 1 >= sessionQs.length, on the closure values
atEnd(cidx, clen) == cidx + 1 >= clen

\* variant of NextIdx that steps over a question: setIdx(i => i + 2)
NextIdxSkip(cur, cidx) == cur + 2

\* setIdx(i => i + 1): cur is the state when the update is applied, cidx the
\* idx of the closure
NextIdx(cur, cidx) == cur + 1

\* variant of nextQuestion() without setStarted(false) at the end
nextQuestionStaysStarted(cidx, clen, hist) ==
  IF atEnd(cidx, clen)
  THEN /\ finished' = TRUE
       /\ chosenHistory' = hist
       /\ UNCHANGED <<idx, eliminated, firstTryCorrect, started>>
  ELSE /\ idx' = NextIdx(idx, cidx)
       /\ eliminated' = {}
       /\ chosenHistory' = << >>
       /\ firstTryCorrect' = "null"
       /\ UNCHANGED <<started, finished>>

\* nextQuestion() run with the closure values cidx = idx and
\* clen = sessionQs.length; hist is the value chosenHistory has in the batch
\* before nextQuestion's own setChosenHistory([])
nextQuestion(cidx, clen, hist) ==
  IF atEnd(cidx, clen)
  THEN /\ started' = FALSE
       /\ finished' = TRUE
       /\ chosenHistory' = hist
       /\ UNCHANGED <<idx, eliminated, firstTryCorrect>>
  ELSE /\ idx' = NextIdx(idx, cidx)
       /\ eliminated' = {}
       /\ chosenHistory' = << >>
       /\ firstTryCorrect' = "null"
       /\ UNCHANGED <<started, finished>>

\* variant of ToggledFlags that clears the whole set on unflagging
ToggledFlagsClear(prev, id) ==
  IF id \in prev THEN {} ELSE prev \cup {id}

\* prev => ({...prev, [q.id]: !prev[q.id]})
ToggledFlags(prev, id) ==
  IF id \in prev THEN prev \ {id} ELSE prev \cup {id}

\* the setup section is rendered: !started && !finished
SetupShown == ~started /\ ~finished

\* the question section is rendered: started && q
QuestionShown == started /\ HasQ

-----------------------------------------------------------------------------
(* Initial state: the useState initial values *)

SessionIdle ==
  /\ allQuestions = << >>
  /\ loadPending = TRUE
  /\ selectedDomains = DOMAINS
  /\ mode = "practice"
  /\ sessionSize = 40
  /\ seed = 42
  /\ sessionQs = << >>
  /\ idx = 0
  /\ started = FALSE
  /\ finished = FALSE
  /\ eliminated = {}
  /\ chosenHistory = << >>
  /\ firstTryCorrect = "null"
  /\ results = NoResults
  /\ flagged = {}
  /\ timers = << >>
  /\ submitted = << >>

Init ==
  /\ SessionIdle
  /\ callIn = "none"
  /\ callOut = << >>

-----------------------------------------------------------------------------
(* Actions *)

\* the useEffect load settles with bank b (<<>>: nothing usable was fetched)
LoadDefaultBank(b) ==
  /\ loadPending
  /\ loadPending' = FALSE
  /\ allQuestions' = IF Len(b) > 0 THEN b ELSE allQuestions
  /\ UNCHANGED <<selectedDomains, mode, sessionSize, seed, sessionQs, idx,
                 started, finished, eliminated, chosenHistory, firstTryCorrect,
                 results, flagged, timers, submitted>>
  /\ UNCHANGED callVars

\* <select> onChange={e => setMode(e.target.value)}
SetMode(m) ==
  /\ SetupShown
  /\ m # mode
  /\ mode' = m
  /\ UNCHANGED <<allQuestions, loadPending, selectedDomains, sessionSize, seed,
                 sessionQs, idx, started, finished, eliminated, chosenHistory,
                 firstTryCorrect, results, flagged, timers, submitted>>
  /\ UNCHANGED callVars

\* <input type="number"> onChange={e => setSessionSize(Number(e.target.value))}
SetSessionSize(n) ==
  /\ SetupShown
  /\ n # sessionSize
  /\ sessionSize' = n
  /\ UNCHANGED <<allQuestions, loadPending, selectedDomains, mode, seed,
                 sessionQs, idx, started, finished, eliminated, chosenHistory,
                 firstTryCorrect, results, flagged, timers, submitted>>
  /\ UNCHANGED callVars

\* Start button (disabled when filtered.length === 0)
startSession ==
  /\ SetupShown
  /\ Len(filtered) # 0
  /\ \E rnd \in RandomDraws :
       LET pool == shuffle(filtered, seed, rnd)
           pick == Slice0(pool, MathMin(sessionSize, Len(pool)))
       IN  sessionQs' = pick
  /\ idx' = 0
  /\ started' = TRUE
  /\ finished' = FALSE
  /\ results' = NoResults
  /\ eliminated' = {}
  /\ chosenHistory' = << >>
  /\ firstTryCorrect' = "null"
  /\ submitted' = << >>
  /\ UNCHANGED <<allQuestions, loadPending, selectedDomains, mode, sessionSize,
                 seed, flagged, timers>>
  /\ UNCHANGED callVars

\* choice button i (disabled when eliminated[i]) -> onChoice(i)
onChoice(choiceIdx) ==
  /\ QuestionShown
  /\ choiceIdx \in 0..(q.numChoices - 1)
  /\ choiceIdx \notin eliminated
  /\ IF mode = "practice"
     THEN IF choiceIdx = correctIndex(q)
          THEN /\ Len(timers) < MaxTimers
               /\ chosenHistory' = Append(chosenHistory, choiceIdx)
               /\ results' = recordResult(TRUE)
               /\ firstTryCorrect' =
                    (IF Len(chosenHistory) = 0 THEN "true" ELSE "false")
               /\ timers' = Append(timers, [idx |-> idx, len |-> Len(sessionQs)])
               /\ UNCHANGED <<idx, started, finished, eliminated>>
          ELSE /\ eliminated' = eliminated \cup {choiceIdx}
               /\ chosenHistory' = Append(chosenHistory, choiceIdx)
               /\ firstTryCorrect' = "false"
               /\ UNCHANGED <<idx, started, finished, results, timers>>
     ELSE /\ results' = recordResult(choiceIdx = correctIndex(q))
          /\ nextQuestion(idx, Len(sessionQs), <<choiceIdx>>)
          /\ UNCHANGED timers
  /\ submitted' = IF idx' # idx THEN << >> ELSE Append(submitted, choiceIdx)
  /\ UNCHANGED <<allQuestions, loadPending, selectedDomains, mode, sessionSize,
                 seed, sessionQs, flagged>>
  /\ UNCHANGED callVars

\* Next button -> nextQuestion()
NextClick ==
  /\ QuestionShown
  /\ nextQuestion(idx, Len(sessionQs), chosenHistory)
  /\ submitted' = IF idx' # idx THEN << >> ELSE submitted
  /\ UNCHANGED <<allQuestions, loadPending, selectedDomains, mode, sessionSize,
                 seed, sessionQs, results, flagged, timers>>
  /\ UNCHANGED callVars

\* the oldest pending setTimeout(nextQuestion, 220) fires, with the closure of
\* the render that scheduled it
TimerFire ==
  /\ timers # << >>
  /\ nextQuestion(Head(timers).idx, Head(timers).len, chosenHistory)
  /\ timers' = Tail(timers)
  /\ submitted' = IF idx' # idx THEN << >> ELSE submitted
  /\ UNCHANGED <<allQuestions, loadPending, selectedDomains, mode, sessionSize,
                 seed, sessionQs, results, flagged>>
  /\ UNCHANGED callVars

\* Flag button -> toggleFlag()
toggleFlag ==
  /\ QuestionShown
  /\ Cardinality(ToggledFlags(flagged, q.id)) <= MaxFlagged
  /\ flagged' = ToggledFlags(flagged, q.id)
  /\ UNCHANGED <<allQuestions, loadPending, selectedDomains, mode, sessionSize,
                 seed, sessionQs, idx, started, finished, eliminated,
                 chosenHistory, firstTryCorrect, results, timers, submitted>>
  /\ UNCHANGED callVars

\* "Back to settings" on the summary: setFinished(false); setStarted(false)
BackToSettings ==
  /\ finished
  /\ finished' = FALSE
  /\ started' = FALSE
  /\ UNCHANGED <<allQuestions, loadPending, selectedDomains, mode, sessionSize,
                 seed, sessionQs, idx, eliminated, chosenHistory,
                 firstTryCorrect, results, flagged, timers, submitted>>
  /\ UNCHANGED callVars

Next ==
  \/ \E b \in FetchResults : LoadDefaultBank(b)
  \/ \E m \in Modes : SetMode(m)
  \/ \E n \in SessionSizes : SetSessionSize(n)
  \/ startSession
  \/ \E c \in ChoiceIdxs : onChoice(c)
  \/ NextClick
  \/ TimerFire
  \/ toggleFlag
  \/ BackToSettings

Spec == Init /\ [][Next]_vars

-----------------------------------------------------------------------------
(* Vocabulary of the properties *)

SessionIds == {sessionQs[i].id : i \in 1..Len(sessionQs)}

\* no choice submitted so far for the current question was the correct one
AllWrongSoFar == \A i \in 1..Len(submitted) : submitted[i] # correctIndex(q)

\* a step in which nextQuestion runs: Next, a delayed advance, an exam submission
Advance ==
  \/ NextClick
  \/ TimerFire
  \/ \E c \in ChoiceIdxs : onChoice(c) /\ mode = "exam"

-----------------------------------------------------------------------------
(* C1..C10: scoring and the session state machine *)

\* C1: practice mode, single answer: the correct submission made after k wrong
\* submissions on the same question stores tries = k + 1 and
\* firstTryCorrect = (k = 0).
C1_PracticeTries ==
  [][\A c \in ChoiceIdxs :
       (onChoice(c) /\ mode = "practice" /\ c = correctIndex(q) /\ AllWrongSoFar)
       => /\ q.id \in DOMAIN results'
          /\ results'[q.id].tries = Len(submitted) + 1
          /\ results'[q.id].firstTryCorrect = (Len(submitted) = 0)]_vars

\* C2: exam mode: any submission, correct or not, adds exactly one result for
\* the current question with tries = 1 and firstTryCorrect = correctness of
\* the choice, and in the same step the machine moves to position + 1, or to
\* Finished from the last question; a stored result is never written again
\* while the session lasts.
C2_ExamSubmit ==
  [][/\ \A c \in ChoiceIdxs :
          (onChoice(c) /\ mode = "exam")
          => /\ q.id \notin DOMAIN results
             /\ DOMAIN results' = DOMAIN results \cup {q.id}
             /\ \A id \in DOMAIN results : results'[id] = results[id]
             /\ results'[q.id].tries = 1
             /\ results'[q.id].firstTryCorrect = (c = correctIndex(q))
             /\ IF idx = Len(sessionQs) - 1
                THEN finished' /\ ~started' /\ idx' = idx
                ELSE idx' = idx + 1 /\ started' /\ ~finished'
     /\ (mode = "exam" /\ ~startSession)
          => \A id \in DOMAIN results :
               id \in DOMAIN results' /\ results'[id] = results[id]]_vars

\* an exam session of two questions is finished, both answered, one of them wrong
C2_Witness ==
  /\ mode = "exam"
  /\ finished
  /\ Len(sessionQs) = 2
  /\ DOMAIN results = SessionIds
  /\ \E id \in DOMAIN results : ~results[id].firstTryCorrect
  /\ \E id \in DOMAIN results : results[id].firstTryCorrect

\* C3: the attempt log stored with a result is the ordered sequence of the
\* choice indices submitted for the question, the terminal submission
\* included (exam: the one index; practice: the wrong ones, then the correct one).
C3_AttemptLog ==
  [][\A c \in ChoiceIdxs :
       (onChoice(c) /\ (mode = "exam" \/ (c = correctIndex(q) /\ AllWrongSoFar)))
       => /\ q.id \in DOMAIN results'
          /\ results'[q.id].chosenHistory = Append(submitted, c)]_vars

\* C4: every stored result has tries >= 1, and firstTryCorrect only with
\* tries = 1.
C4_TriesInvariant ==
  \A id \in DOMAIN results :
    /\ results[id].tries >= 1
    /\ results[id].firstTryCorrect => results[id].tries = 1

\* one question was answered at once, another after two submissions were on record
C4_Witness ==
  \E a, b \in DOMAIN results :
    /\ results[a].firstTryCorrect /\ results[a].tries = 1
    /\ ~results[b].firstTryCorrect /\ results[b].tries = 2

\* C5: in an active session of n >= 1 questions, an advance made once every
\* session question has its terminal submission leaves the machine Finished
\* with exactly n results, one per session question.
C5_Completion ==
  [][(/\ started
      /\ Len(sessionQs) >= 1
      /\ Advance
      /\ SessionIds \subseteq DOMAIN results')
     => /\ finished' /\ ~started'
        /\ DOMAIN results' = SessionIds]_vars

\* C6 as stated: position changes only by +1 or by a session start to 0, and
\* every session question below position has a result.
C6_Original ==
  /\ [][idx' # idx => (idx' = idx + 1 \/ (startSession /\ idx' = 0))]_vars
  /\ [](started => \A i \in 1..Len(sessionQs) :
                     i - 1 < idx => sessionQs[i].id \in DOMAIN results)

\* C6 as amended: position starts at 0 in every session and changes only by
\* exactly +1 within a session (a question below position may have no result:
\* Next and a delayed advance pass unanswered questions).
C6_PositionSteps ==
  /\ [][startSession => idx' = 0]_vars
  /\ [][idx' # idx => (idx' = idx + 1 \/ (startSession /\ idx' = 0))]_vars

\* the session is at its second question and the first one has no result
C6_Witness ==
  /\ started
  /\ idx = 1
  /\ Len(sessionQs) = 2
  /\ sessionQs[1].id \notin DOMAIN results

\* C7: while started, 0 <= position < length(questions).
C7_PositionInRange ==
  started => (0 <= idx /\ idx < Len(sessionQs))

\* C8: a delayed advance scheduled on question i changes position only if
\* position is still i when it fires.
C8_DelayedAdvanceIdempotent ==
  [][(TimerFire /\ Head(timers).idx # idx) => idx' = idx]_vars

\* C9: whenever finished becomes true, position is the last index of the
\* current session's question list.
C9_FinishedOnlyFromLast ==
  [][(~finished /\ finished') => idx = Len(sessionQs) - 1]_vars

\* C10: right after startSession position is 0 and results, the attempt log,
\* the eliminated set and the flags set are all empty.
C10_StartDiscardsAll ==
  [][startSession =>
       /\ idx' = 0
       /\ results' = NoResults
       /\ chosenHistory' = << >>
       /\ eliminated' = {}
       /\ flagged' = {}]_vars

-----------------------------------------------------------------------------
(* C18: the frame of toggleFlag *)

\* C18: toggleFlag flips the membership of exactly the current question's id
\* in the flags set (every other id keeps its membership), leaves results,
\* position, the attempt log, the eliminated set, started and finished
\* unchanged, and a second toggle on the same question restores the flags set.
C18_ToggleFlagFrame ==
  [][toggleFlag =>
       /\ (q.id \in flagged') = (q.id \notin flagged)
       /\ \A id \in (flagged \cup flagged') \ {q.id} :
            (id \in flagged') = (id \in flagged)
       /\ UNCHANGED <<results, idx, chosenHistory, eliminated, started,
                      finished, sessionQs>>
       /\ ToggledFlags(flagged', sessionQs'[idx' + 1].id) = flagged]_vars

\* the current question is unflagged while the other question of the session
\* is flagged: the current one was toggled twice, or the other one before it
C18_Witness ==
  /\ started
  /\ HasQ
  /\ Len(sessionQs) = 2
  /\ q.id \notin flagged
  /\ flagged # {}
  /\ chosenHistory # << >>

-----------------------------------------------------------------------------
(* Starting sessions over every setup: the setup form has been filled in     *)
(* (bank loaded, domains toggled, size and seed typed) and sessions are      *)
(* started, clicked through with Next and restarted from the summary.        *)

\* a bank with one question per domain button that is used
Bank3 ==
  Bank2 \o << [id |-> "Q3", domain |-> "Business", answerIndex |-> 1,
               numChoices |-> 2] >>

StartBanks == {Bank2, Bank3}

\* values of the session size input: negative, zero, below, at and above the
\* pool sizes
StartSizes == {-2, -1, 0, 1, 2, 3, 40}

\* values of the seed input
Seeds == {-1, 0, 42, 8192}

InitStart ==
  /\ allQuestions \in StartBanks
  /\ loadPending = FALSE
  /\ selectedDomains \in SUBSET DOMAINS
  /\ mode \in Modes
  /\ sessionSize \in StartSizes
  /\ seed \in Seeds
  /\ sessionQs = << >>
  /\ idx = 0
  /\ started = FALSE
  /\ finished = FALSE
  /\ eliminated = {}
  /\ chosenHistory = << >>
  /\ firstTryCorrect = "null"
  /\ results = NoResults
  /\ flagged = {}
  /\ timers = << >>
  /\ submitted = << >>
  /\ callIn = "none"
  /\ callOut = << >>

NextStart ==
  \/ startSession
  \/ NextClick
  \/ toggleFlag
  \/ BackToSettings

SpecStart == InitStart /\ [][NextStart]_vars

\* the ids of a question list, in order
IdSeq(qs) == [i \in 1..Len(qs) |-> qs[i].id]

\* the questions of the filtered pool
PoolSet == {filtered[i] : i \in 1..Len(filtered)}

\* C11: for every filtered pool and every session size of the form, the
\* question list of a started session contains only questions of the pool,
\* none of them twice, at most |pool| of them, and exactly min(size, |pool|).
C11_SessionSizing ==
  [][startSession =>
       /\ \A i \in 1..Len(sessionQs') : sessionQs'[i] \in PoolSet
       /\ \A i, j \in 1..Len(sessionQs') :
            i # j => sessionQs'[i].id # sessionQs'[j].id
       /\ Len(sessionQs') <= Len(filtered)
       /\ Len(sessionQs') = MathMin(sessionSize, Len(filtered))]_vars

\* C13: a session started again with the same filtered bank, the same size
\* and the same seed has the same sequence of question ids as the session
\* before it (the setup does not change between the sessions here), whatever
\* Math.random returns in either run.
C13_Reproducible ==
  [][(startSession /\ sessionQs # << >>)
       => IdSeq(sessionQs') = IdSeq(sessionQs)]_vars

\* a flag put on the last question of a session of three is still set while
\* position is 0 again: the session was started a second time (flags survive
\* a start), with the same questions
C13_Witness ==
  /\ started
  /\ idx = 0
  /\ Len(sessionQs) = 3
  /\ sessionQs[3].id \in flagged
  /\ IdSeq(sessionQs) # IdSeq(filtered)

-----------------------------------------------------------------------------
(* shuffle as a function: the xorshift variant (src/unnamed/part_000) and    *)
(* the LCG variant (src/src/App.jsx), called once on an array and a seed     *)

\* the longest array that is shuffled
MaxLen == 3

\* rand = (rand * 16807) % 2147483647
LcgMul == 16807
LcgMod == 2147483647

Elems == {"a", "b"}

\* the arrays handed to shuffle: every length up to MaxLen, equal elements
\* included
Arrays == UNION {[1..n -> Elems] : n \in 0..MaxLen}

\* what reading a missing array element or property gives
Undefined == "undefined"

\* (p * 16807) % 2147483647 for 0 <= p < 2147483647 (the product is below
\* 2^53, so the double arithmetic of the code is exact), computed by
\* Schrage's decomposition to stay within 32-bit integers
MulMod(p) ==
  LET qq == LcgMod \div LcgMul
      rr == LcgMod % LcgMul
      t == LcgMul * (p % qq) - rr * (p \div qq)
  IN  IF t < 0 THEN t + LcgMod ELSE t

\* rand = (rand * 16807) % 2147483647: % takes the sign of the dividend
LcgNext(rand) == IF rand >= 0 THEN MulMod(rand) ELSE 0 - MulMod(0 - rand)

\* floor(p * m / 2147483647) for 0 <= p < 2147483647 and m >= 1: the number
\* of k in 1..m with k * 2147483647 <= p * m
FloorFrac(p, m) ==
  LET qq == LcgMod \div m
      rr == LcgMod % m
  IN  Cardinality({k \in 1..m : p >= k * qq + ((k * rr + m - 1) \div m)})

\* Math.floor((rand / 2147483647) * m): a negative rand gives a negative index
LcgIndex(rand, m) ==
  IF rand >= 0 THEN FloorFrac(rand, m) ELSE 0 - (FloorFrac(0 - rand, m) + 1)

\* what Math.random() gives in the loop, as the index Math.floor(random * m)
\* for each m: any index below m
DrawsFor(n) == {d \in [1..n -> 0..(n - 1)] : \A m \in 1..n : d[m] < m}

\* while (m) { i = Math.floor((seed ? random() : Math.random()) * m--);
\*             [arr[m], arr[i]] = [arr[i], arr[m]]; }
\* arr maps the indices and the negative property keys written by the loop
RECURSIVE LcgLoop(_, _, _, _, _)
LcgLoop(arr, rand, m, sd, draws) ==
  IF m = 0 THEN arr
  ELSE LET rand2 == IF sd # 0 THEN LcgNext(rand) ELSE rand
           i == IF sd # 0 THEN LcgIndex(rand2, m) ELSE draws[m]
           m2 == m - 1
       IN  LcgLoop([arr EXCEPT ![m2] = arr[i], ![i] = arr[m2]],
                   rand2, m2, sd, draws)

\* shuffle(array, seed) of App.jsx, for a seed with |seed| < 2147483647
shuffleLcg(array, sd, draws) ==
  LET n == Len(array)
      arr0 == [k \in (0 - n)..(n - 1) |->
                 IF k >= 0 THEN array[k + 1] ELSE Undefined]
      arr == LcgLoop(arr0, sd, n, sd, draws)
  IN  [k \in 1..n |-> arr[k - 1]]

InitShuffle ==
  /\ SessionIdle
  /\ callIn \in [variant : {"xorshift", "lcg"}, arr : Arrays, seed : Seeds]
  /\ callOut = << >>

\* shuffle(arr, seed) of part_000: returns the shuffled copy a of [...arr]
ShuffleXorshift ==
  /\ callIn.variant = "xorshift"
  /\ callOut = << >>
  /\ \E rnd \in RandomDraws :
       callOut' = << [ret |-> shuffle(callIn.arr, callIn.seed, rnd),
                      arg |-> callIn.arr] >>
  /\ UNCHANGED <<callIn, sessionVars>>

\* shuffle(array, seed) of App.jsx: returns the shuffled copy of array.slice()
ShuffleLcg ==
  /\ callIn.variant = "lcg"
  /\ callOut = << >>
  /\ \E draws \in DrawsFor(Len(callIn.arr)) :
       callOut' = << [ret |-> shuffleLcg(callIn.arr, callIn.seed, draws),
                      arg |-> callIn.arr] >>
  /\ UNCHANGED <<callIn, sessionVars>>

NextShuffle ==
  \/ ShuffleXorshift
  \/ ShuffleLcg

SpecShuffle == InitShuffle /\ [][NextShuffle]_vars

\* how often e occurs in the sequence s
Count(s, e) == Cardinality({k \in 1..Len(s) : s[k] = e})

\* C14: for every array and every integer seed, 0 and negative seeds
\* included, shuffle returns a sequence of the same length with the same
\* elements in the same multiplicities, and leaves its argument as it was.
C14_ShufflePermutes ==
  callOut # << >> =>
    /\ Len(callOut[1].ret) = Len(callIn.arr)
    /\ \A e \in Elems \cup {Undefined} :
         Count(callOut[1].ret, e) = Count(callIn.arr, e)
    /\ callOut[1].arg = callIn.arr

-----------------------------------------------------------------------------
(* The choice permutation of beginSession (v2.1 file, src/unnamed/part_000   *)
(* lines 796-820): the callback of pickRaw.map applied to one question       *)

\* seeds Math.floor(Math.random() * 1e9) can deliver, one for each of the 24
\* orders shuffle([0,1,2,3], seed) returns
ChoiceSeeds ==
  {0, 1, 22, 23, 43, 44, 4096, 4097, 4107, 4108, 4128, 4129, 8192, 8193,
   8214, 8215, 8235, 8236, 12288, 12289, 12299, 12300, 12320, 12321}

Texts == {"t0", "t1", "t2", "t3", "t4"}

\* the choice list of a question with n choices
ChoicesOf(n) == SubSeq(<<"t0", "t1", "t2", "t3", "t4">>, 1, n)

\* legacy questions (no item_type): four choices, answerIndex in 0..3
LegacyQuestions ==
  {[id |-> "L", domain |-> "People", choices |-> ChoicesOf(4),
    answerIndex |-> a] : a \in 0..3}

\* the lengths of the choice lists of v2.1 questions
ChoiceCounts == {3, 4, 5}

\* v2.1 single-answer questions: item_type "single", a correct_index into the
\* choices
SingleQuestions ==
  UNION {{[id |-> "S", domain |-> "People", item_type |-> "single",
           choices |-> ChoicesOf(n), correct_index |-> c] : c \in 0..(n - 1)}
         : n \in ChoiceCounts}

\* v2.1 multi-select questions: item_type "multi", two correct_indices
MultiQuestions ==
  UNION {{[id |-> "M", domain |-> "People", item_type |-> "multi",
           choices |-> ChoicesOf(n), correct_indices |-> <<c, d>>]
          : <<c, d>> \in {p \in (0..(n - 1)) \X (0..(n - 1)) : p[1] < p[2]}}
         : n \in ChoiceCounts}

\* function isV21(q) { return q && typeof q === 'object' && 'item_type' in q; }
isV21(qn) == "item_type" \in DOMAIN qn

\* arr[k] of a JavaScript array, k a number
At(arr, k) == IF k >= 0 /\ k < Len(arr) THEN arr[k + 1] ELSE Undefined

\* arr.indexOf(v): the first 0-based index of v, or -1
IndexOf(arr, v) ==
  IF \E k \in 1..Len(arr) : arr[k] = v
  THEN (CHOOSE k \in 1..Len(arr) :
          arr[k] = v /\ \A j \in 1..(k - 1) : arr[j] # v) - 1
  ELSE 0 - 1

\* variant of RemapIndex that applies the permutation the other way round:
\* idxs[ci]
RemapIndexForward(idxs, ci) == At(idxs, ci)

\* idxs.indexOf(ci): the new place of the choice that was at ci
RemapIndex(idxs, ci) == IndexOf(idxs, ci)

\* (q.choices || []).map((_, i) => q.choices[idxs[i]]): idxs[i] is undefined
\* from i = idxs.length on, and q.choices[undefined] is undefined
MapChoices(choices, idxs) ==
  [i \in 1..Len(choices) |->
     IF i <= Len(idxs) THEN At(choices, idxs[i]) ELSE Undefined]

\* the body of the pickRaw.map callback once idxs is drawn
permuteWith(qn, idxs) ==
  IF isV21(qn)
  THEN IF qn.item_type = "single"
       THEN [qn EXCEPT !.choices = MapChoices(qn.choices, idxs),
                       !.correct_index = RemapIndex(idxs, qn.correct_index)]
       ELSE IF qn.item_type = "multi"
       THEN [qn EXCEPT !.choices = MapChoices(qn.choices, idxs),
                       !.correct_indices =
                          SortSeq([k \in 1..Len(qn.correct_indices) |->
                                     RemapIndex(idxs, qn.correct_indices[k])],
                                  LAMBDA a, b : a < b)]
       ELSE qn
  ELSE [qn EXCEPT !.choices = <<At(qn.choices, idxs[1]), At(qn.choices, idxs[2]),
                                At(qn.choices, idxs[3]), At(qn.choices, idxs[4])>>,
                  !.answerIndex = RemapIndex(idxs, qn.answerIndex)]

\* the callback of pickRaw.map, with rnd the value of
\* Math.floor(Math.random() * 1e9):
\* const idxs = shuffle([0,1,2,3], Math.floor(Math.random()*1e9))
permuteChoices(qn, rnd) == permuteWith(qn, shuffle(<<0, 1, 2, 3>>, rnd, rnd))

InitPermute ==
  /\ SessionIdle
  /\ callIn \in [q : LegacyQuestions \cup SingleQuestions \cup MultiQuestions,
                  rnd : ChoiceSeeds]
  /\ callOut = << >>

\* the callback runs on the question
MapQuestion ==
  /\ callOut = << >>
  /\ callOut' = <<permuteChoices(callIn.q, callIn.rnd)>>
  /\ UNCHANGED <<callIn, sessionVars>>

NextPermute == MapQuestion

SpecPermute == InitPermute /\ [][NextPermute]_vars

\* the correct indices a v2.1 question carries
CorrectSet(qn) ==
  IF qn.item_type = "single" THEN {qn.correct_index}
  ELSE {qn.correct_indices[k] : k \in 1..Len(qn.correct_indices)}

\* C15: for every legacy 4-choice question and every order of [0,1,2,3]
\* drawn, the session question's choices are a permutation of the four
\* original texts and the text at the new answerIndex is the text that was at
\* the original answerIndex.
C15_LegacyPermutation ==
  (callOut # << >> /\ ~isV21(callIn.q)) =>
    /\ Len(callOut[1].choices) = Len(callIn.q.choices)
    /\ \A t \in Texts \cup {Undefined} :
         Count(callOut[1].choices, t) = Count(callIn.q.choices, t)
    /\ callOut[1].answerIndex \in 0..3
    /\ At(callOut[1].choices, callOut[1].answerIndex)
         = At(callIn.q.choices, callIn.q.answerIndex)

\* a legacy question was permuted by an order that is not its own inverse and
\* its correct choice has moved
C15_Witness ==
  /\ callOut # << >>
  /\ ~isV21(callIn.q)
  /\ callOut[1].answerIndex # callIn.q.answerIndex
  /\ callOut[1].choices[callIn.q.answerIndex + 1]
       # callIn.q.choices[callOut[1].answerIndex + 1]

\* C16: for every v2.1 single or multi-select question with 3, 4 or 5
\* choices, after the permutation the multiset of choice texts is unchanged,
\* every remapped correct index is an index into the new choice list, and the
\* texts at the remapped indices are the originally correct texts.
C16_V21Remap ==
  (callOut # << >> /\ isV21(callIn.q)) =>
    /\ Len(callOut[1].choices) = Len(callIn.q.choices)
    /\ \A t \in Texts \cup {Undefined} :
         Count(callOut[1].choices, t) = Count(callIn.q.choices, t)
    /\ \A ci \in CorrectSet(callOut[1]) :
         ci >= 0 /\ ci < Len(callOut[1].choices)
    /\ {At(callOut[1].choices, ci) : ci \in CorrectSet(callOut[1])}
         = {At(callIn.q.choices, ci) : ci \in CorrectSet(callIn.q)}

-----------------------------------------------------------------------------
(* The session state machine of the v2.1 file (src/unnamed/part_000 lines    *)
(* 608-1229), for banks of single-answer questions: the multi-select and     *)
(* matching handlers are not enabled on such banks, and multiSel and         *)
(* matchSel stay empty.  The mode select, the size input and "Back to        *)
(* settings" have the code of part_001 and share its actions.  The Flag      *)
(* button is left out: flagged is read and written by toggleFlag only.       *)

\* const starterQuestions = [...]: the initial value of allQuestions
starterQuestions ==
  << [id |-> "Q1", domain |-> "People", choices |-> ChoicesOf(4),
      answerIndex |-> 1] >>

\* a bank /questions.json delivers: a legacy question and a v2.1 single item
BankV21 ==
  << [id |-> "Q1", domain |-> "People", choices |-> ChoicesOf(4),
      answerIndex |-> 1],
     [id |-> "Q2", domain |-> "Process", item_type |-> "single",
      choices |-> ChoicesOf(4), correct_index |-> 3] >>

FetchResultsV21 == {BankV21, << >>}

\* the domain buttons that are clicked
ToggledDomains == {"People"}

\* values of Math.floor(Math.random() * 1e9) drawn for the choice order:
\* shuffle([0,1,2,3], 0) = [1,2,3,0], shuffle([0,1,2,3], 12299) = [0,1,2,3]
SessionChoiceSeeds == {0, 12299}

\* the orders idxs drawn for the questions of a session
SessionOrders == {shuffle(<<0, 1, 2, 3>>, r, r) : r \in SessionChoiceSeeds}

\* the choice buttons of a question card
ChoiceIdxsV21 == 0..3

\* at most this many delayed advances are pending at once in the v2.1 machine
MaxTimersV21 == 1

\* at most this many choice clicks are made while position stays the same
MaxClicks == 2

\* const correctIdx = isV21(q) ? (q.correct_index ?? 0) : q.answerIndex
\* (every v2.1 item of the banks here carries a correct_index)
correctIdxOf(qn) == IF isV21(qn) THEN qn.correct_index ELSE qn.answerIndex

\* recordResult(correct) of the v2.1 file: tries = chosenHistory.length +
\* (multiSel.length ? 1 : 0) + (matchSel.length ? 1 : 0) || 1, with multiSel
\* and matchSel empty
recordResultV21(correct) ==
  LET tries == IF Len(chosenHistory) = 0 THEN 1 ELSE Len(chosenHistory)
      r == [firstTryCorrect |-> (correct /\ tries = 1),
            tries |-> tries,
            chosenHistory |-> chosenHistory]
  IN  [id \in DOMAIN results \cup {q.id} |->
         IF id = q.id THEN r ELSE results[id]]

\* nextQuestion() of the v2.1 file, run with the closure values cidx = idx
\* and clen = sessionQs.length: setIdx(idx + 1) writes the closure's idx + 1
nextQuestionV21(cidx, clen, hist) ==
  IF cidx + 1 >= clen
  THEN /\ finished' = TRUE
       /\ started' = FALSE
       /\ chosenHistory' = hist
       /\ UNCHANGED <<idx, eliminated, firstTryCorrect>>
  ELSE /\ idx' = cidx + 1
       /\ eliminated' = {}
       /\ chosenHistory' = << >>
       /\ firstTryCorrect' = "null"
       /\ UNCHANGED <<started, finished>>

InitV21 ==
  /\ allQuestions = starterQuestions
  /\ loadPending = TRUE
  /\ selectedDomains = DOMAINS
  /\ mode = "practice"
  /\ sessionSize = 40
  /\ seed = 42
  /\ sessionQs = << >>
  /\ idx = 0
  /\ started = FALSE
  /\ finished = FALSE
  /\ eliminated = {}
  /\ chosenHistory = << >>
  /\ firstTryCorrect = "null"
  /\ results = NoResults
  /\ flagged = {}
  /\ timers = << >>
  /\ submitted = << >>
  /\ callIn = "none"
  /\ callOut = << >>

\* domain button d: setSelectedDomains(s => ({...s, [d]: !s[d]}))
ToggleDomain(d) ==
  /\ SetupShown
  /\ selectedDomains' = IF d \in selectedDomains THEN selectedDomains \ {d}
                        ELSE selectedDomains \cup {d}
  /\ UNCHANGED <<allQuestions, loadPending, mode, sessionSize, seed,
                 sessionQs, idx, started, finished, eliminated, chosenHistory,
                 firstTryCorrect, results, flagged, timers, submitted>>
  /\ UNCHANGED callVars

\* "Start session" button (no disabled attribute) -> beginSession()
beginSession ==
  /\ SetupShown
  /\ \E rnd \in RandomDraws :
       LET pool == shuffle(filtered, seed, rnd)
           pickRaw == Slice0(pool, MathMin(sessionSize, Len(pool)))
       IN  \E orders \in [1..Len(pickRaw) -> SessionOrders] :
             sessionQs' = [i \in 1..Len(pickRaw) |->
                             permuteWith(pickRaw[i], orders[i])]
  /\ idx' = 0
  /\ results' = NoResults
  /\ finished' = FALSE
  /\ started' = TRUE
  /\ eliminated' = {}
  /\ chosenHistory' = << >>
  /\ firstTryCorrect' = "null"
  /\ submitted' = << >>
  /\ UNCHANGED <<allQuestions, loadPending, selectedDomains, mode, sessionSize,
                 seed, flagged, timers>>
  /\ UNCHANGED callVars

\* choice button i of a single-answer card (disabled when eliminated[i])
\* -> onChoiceSingle(i)
onChoiceSingle(choiceIdx) ==
  /\ QuestionShown
  /\ IF isV21(q) THEN q.item_type = "single" ELSE TRUE
  /\ choiceIdx >= 0 /\ choiceIdx < Len(q.choices)
  /\ choiceIdx \notin eliminated
  /\ Len(submitted) < MaxClicks
  /\ IF mode = "practice"
     THEN IF choiceIdx = correctIdxOf(q)
          THEN /\ Len(timers) < MaxTimersV21
               /\ chosenHistory' = Append(chosenHistory, choiceIdx)
               /\ results' = recordResultV21(TRUE)
               /\ firstTryCorrect' =
                    (IF Len(chosenHistory) = 0 THEN "true" ELSE "false")
               /\ timers' = Append(timers, [idx |-> idx, len |-> Len(sessionQs)])
               /\ UNCHANGED <<idx, started, finished, eliminated>>
          ELSE /\ eliminated' = eliminated \cup {choiceIdx}
               /\ chosenHistory' = Append(chosenHistory, choiceIdx)
               /\ firstTryCorrect' = "false"
               /\ UNCHANGED <<idx, started, finished, results, timers>>
     ELSE /\ results' = recordResultV21(choiceIdx = correctIdxOf(q))
          /\ nextQuestionV21(idx, Len(sessionQs), <<choiceIdx>>)
          /\ UNCHANGED timers
  /\ submitted' = IF idx' # idx THEN << >> ELSE Append(submitted, choiceIdx)
  /\ UNCHANGED <<allQuestions, loadPending, selectedDomains, mode, sessionSize,
                 seed, sessionQs, flagged>>
  /\ UNCHANGED callVars

\* "Next (N)" button -> nextQuestion()
NextClickV21 ==
  /\ QuestionShown
  /\ nextQuestionV21(idx, Len(sessionQs), chosenHistory)
  /\ submitted' = IF idx' # idx THEN << >> ELSE submitted
  /\ UNCHANGED <<allQuestions, loadPending, selectedDomains, mode, sessionSize,
                 seed, sessionQs, results, flagged, timers>>
  /\ UNCHANGED callVars

\* the oldest pending setTimeout(() => nextQuestion(), 250) fires, with the
\* closure of the render that scheduled it
TimerFireV21 ==
  /\ timers # << >>
  /\ nextQuestionV21(Head(timers).idx, Head(timers).len, chosenHistory)
  /\ timers' = Tail(timers)
  /\ submitted' = IF idx' # idx THEN << >> ELSE submitted
  /\ UNCHANGED <<allQuestions, loadPending, selectedDomains, mode, sessionSize,
                 seed, sessionQs, results, flagged>>
  /\ UNCHANGED callVars

NextV21 ==
  \/ \E b \in FetchResultsV21 : LoadDefaultBank(b)
  \/ \E d \in ToggledDomains : ToggleDomain(d)
  \/ \E m \in Modes : SetMode(m)
  \/ \E n \in SessionSizes : SetSessionSize(n)
  \/ beginSession
  \/ \E c \in ChoiceIdxsV21 : onChoiceSingle(c)
  \/ NextClickV21
  \/ TimerFireV21
  \/ BackToSettings

SpecV21 == InitV21 /\ [][NextV21]_vars

\* a practice-mode click on a choice that is not the correct one
WrongClick(c) ==
  onChoiceSingle(c) /\ mode = "practice" /\ c # correctIdxOf(q)

\* C12: in the v2.1 file the machine never becomes started while the
\* domain-filtered pool is empty (every domain with questions deselected):
\* Start has no effect then.
C12_NoStartOnEmptyPool ==
  [][(~started /\ started') => Len(filtered) # 0]_vars

\* C17: practice mode of the v2.1 file, single-answer cards: a wrong click
\* leaves position unchanged and disables the clicked option; a disabled
\* option stays disabled as long as the session stays on the same position;
\* and no wrong option is clicked that was already submitted for the question.
C17_EliminateAndRetry ==
  [][/\ \A c \in ChoiceIdxsV21 :
          WrongClick(c) => (idx' = idx /\ c \in eliminated')
     /\ (started /\ started' /\ idx' = idx) => eliminated \subseteq eliminated'
     /\ \A c \in ChoiceIdxsV21 :
          WrongClick(c) => \A k \in 1..Len(submitted) : submitted[k] # c]_vars

-----------------------------------------------------------------------------
(* CSV serializer and tokenizer (src/unnamed/part_000 lines 642-685).  A     *)
(* string is a sequence of symbols.  A symbol is one of the characters the   *)
(* code tells apart (double quote, comma, line feed, carriage return, space),*)
(* or a word of other characters ("John", "People"), which the code copies   *)
(* like any single ordinary character and which stands for one here.         *)

Quote == "\""
Comma == ","
LF == "\n"
CR == "\r"
Space == " "

\* the longest cell of the generated tables
MaxCellLen == 2

\* /[",\n]/.test(String(cell))
NeedsQuotes(cell) == \E k \in 1..Len(cell) : cell[k] \in {Quote, Comma, LF}

\* String(cell).replace(/"/g, '""')
RECURSIVE DoubleQuotes(_)
DoubleQuotes(cell) ==
  IF cell = << >> THEN << >>
  ELSE (IF Head(cell) = Quote THEN <<Quote, Quote>> ELSE <<Head(cell)>>)
       \o DoubleQuotes(Tail(cell))

\* the callback of r.map in toCSV
CsvCell(cell) ==
  IF NeedsQuotes(cell) THEN <<Quote>> \o DoubleQuotes(cell) \o <<Quote>>
  ELSE cell

\* Array.prototype.join(sep) on an array of strings
RECURSIVE Join(_, _)
Join(strs, sep) ==
  IF strs = << >> THEN << >>
  ELSE IF Len(strs) = 1 THEN strs[1]
  ELSE strs[1] \o <<sep>> \o Join(Tail(strs), sep)

\* toCSV(rows)
toCSV(rows) ==
  Join([r \in 1..Len(rows) |->
          Join([c \in 1..Len(rows[r]) |-> CsvCell(rows[r][c])], Comma)],
       LF)

\* variant of PushRow that pushes every row: rows.push(row)
PushRowAlways(rows, row) == Append(rows, row)

\* if (row.length && row.some(c => c !== "")) rows.push(row)
PushRow(rows, row) ==
  IF Len(row) > 0 /\ \E k \in 1..Len(row) : row[k] # << >>
  THEN Append(rows, row)
  ELSE rows

\* the tokenizer's variables before the loop: let i = 0, cur = "", row = [],
\* inQ = false; const rows = []
ParseStart == [i |-> 0, rows |-> << >>, row |-> << >>, cur |-> << >>, inQ |-> FALSE]

\* one pass through the body of the while loop of parseCSVStream; st.i is
\* the 0-based index of the code
ParseStep(text, st) ==
  LET ch == text[st.i + 1]
      nextIs(c) == st.i + 1 < Len(text) /\ text[st.i + 2] = c
  IN  IF ch = Quote
      THEN IF st.inQ /\ nextIs(Quote)
           THEN [st EXCEPT !.cur = Append(@, Quote), !.i = @ + 2]
           ELSE [st EXCEPT !.inQ = ~@, !.i = @ + 1]
      ELSE IF ~st.inQ /\ ch = Comma
      THEN [st EXCEPT !.row = Append(@, st.cur), !.cur = << >>, !.i = @ + 1]
      ELSE IF ~st.inQ /\ (ch = LF \/ ch = CR)
      THEN [st EXCEPT !.rows = PushRow(@, Append(st.row, st.cur)),
                      !.row = << >>, !.cur = << >>,
                      !.i = IF ch = CR /\ nextIs(LF) THEN @ + 2 ELSE @ + 1]
      ELSE [st EXCEPT !.cur = Append(@, ch), !.i = @ + 1]

\* the while loop of parseCSVStream and the flush after it
RECURSIVE ParseLoop(_, _)
ParseLoop(text, st) ==
  IF st.i < Len(text) THEN ParseLoop(text, ParseStep(text, st))
  ELSE IF Len(st.cur) > 0 \/ Len(st.row) > 0
       THEN PushRow(st.rows, Append(st.row, st.cur))
       ELSE st.rows

\* parseCSVStream(text)
parseCSVStream(text) == ParseLoop(text, ParseStart)

\* the characters of the generated cells
CellAlphabet == {"x", Comma, Quote, LF, CR}

\* the generated cells: every string over CellAlphabet up to MaxCellLen
Cells == UNION {[1..n -> CellAlphabet] : n \in 0..MaxCellLen}

\* the cell John, "the PM," said "go"
JohnCell ==
  <<"John", Comma, Space, Quote, "the", Space, "PM", Comma, Quote, Space,
    "said", Space, Quote, "go", Quote>>

\* rectangular tables (1x1, 1x2, 2x1) in which every row has a non-empty cell
Tables ==
  {<<<<c>>>> : c \in (Cells \ {<< >>}) \cup {JohnCell}}
  \cup {<<<<c, d>>>> : <<c, d>> \in (Cells \X Cells) \ {<< << >>, << >> >>}}
  \cup {<< <<c>>, <<d>> >> : <<c, d>> \in (Cells \ {<< >>}) \X (Cells \ {<< >>})}

InitRoundTrip ==
  /\ SessionIdle
  /\ callIn \in [rows : Tables]
  /\ callOut = << >>

\* const text = toCSV(rows)
Serialize ==
  /\ callOut = << >>
  /\ callOut' = <<toCSV(callIn.rows)>>
  /\ UNCHANGED <<callIn, sessionVars>>

\* parseCSVStream(text)
Tokenize ==
  /\ Len(callOut) = 1
  /\ callOut' = Append(callOut, parseCSVStream(callOut[1]))
  /\ UNCHANGED <<callIn, sessionVars>>

NextRoundTrip ==
  \/ Serialize
  \/ Tokenize

SpecRoundTrip == InitRoundTrip /\ [][NextRoundTrip]_vars

\* C19: for every rectangular table whose rows each have a non-empty cell,
\* with cells over an alphabet that has comma, double quote, line feed and
\* carriage return, parseCSVStream(toCSV(rows)) = rows; the cell
\* John, "the PM," said "go" included.
C19_RoundTrip ==
  Len(callOut) = 2 => callOut[2] = callIn.rows

-----------------------------------------------------------------------------
(* parseCSV (src/unnamed/part_000 lines 687-721) on generated texts: a       *)
(* header line and up to two data lines, with an opening quote that is never *)
(* closed put in front of one cell of the first data line                    *)

\* the characters String.prototype.trim and /\s+/ take for white space
WhiteSpace == {Space, LF, CR}

RECURSIVE TrimStart(_)
TrimStart(str) ==
  IF str # << >> /\ Head(str) \in WhiteSpace THEN TrimStart(Tail(str)) ELSE str

RECURSIVE TrimEnd(_)
TrimEnd(str) ==
  IF str # << >> /\ str[Len(str)] \in WhiteSpace
  THEN TrimEnd(SubSeq(str, 1, Len(str) - 1))
  ELSE str

\* String.prototype.trim
Trim(str) == TrimEnd(TrimStart(str))

\* toLowerCase of the words that have capitals
LowerWord(w) ==
  CASE w = "ID" -> "id"
    [] w = "Domain" -> "domain"
    [] w = "A" -> "a"
    [] w = "B" -> "b"
    [] w = "C" -> "c"
    [] w = "D" -> "d"
    [] w = "Q" -> "q"
    [] w = "E" -> "e"
    [] w = "U6" -> "u6"
    [] w = "U7" -> "u7"
    [] w = "People" -> "people"
    [] w = "Process" -> "process"
    [] w = "Mars" -> "mars"
    [] OTHER -> w

\* String.prototype.toLowerCase
ToLowerCase(str) == [k \in 1..Len(str) |-> LowerWord(str[k])]

\* str.replace(/\s+/g, "")
RECURSIVE RemoveWhiteSpace(_)
RemoveWhiteSpace(str) ==
  IF str = << >> THEN << >>
  ELSE (IF Head(str) \in WhiteSpace THEN << >> ELSE <<Head(str)>>)
       \o RemoveWhiteSpace(Tail(str))

\* row[i] || "": undefined (i is -1 or past the end) and "" both give ""
CellOr(row, i) == IF i >= 0 /\ i < Len(row) THEN row[i + 1] ELSE << >>

\* const m = { a:0, b:1, c:2, d:3 }
LetterKeys == {<<"a">>, <<"b">>, <<"c">>, <<"d">>}

\* the lower-case keys `t in m` also finds, on Object.prototype
InheritedKeys == {<<"constructor">>, <<"__proto__">>}

DigitKeys == {<<"0">>, <<"1">>, <<"2">>, <<"3">>}

\* what m[t] is for an inherited key: an object of Object.prototype (the
\* function Object for constructor), which is no number and no index; the
\* numbers m[t] and Number(t) give are 0..3
ObjectValue == -1

\* letterToIndex(s) !== undefined
Resolves(str) ==
  ToLowerCase(Trim(str)) \in LetterKeys \cup InheritedKeys \cup DigitKeys

\* letterToIndex(s), for a string that resolves
letterToIndex(str) ==
  LET t == ToLowerCase(Trim(str))
  IN  CASE t \in {<<"a">>, <<"0">>} -> 0
        [] t \in {<<"b">>, <<"1">>} -> 1
        [] t \in {<<"c">>, <<"2">>} -> 2
        [] t \in {<<"d">>, <<"3">>} -> 3
        [] OTHER -> ObjectValue

\* const allowedDomains = new Set(["People","Process","Business","Agile"])
allowedDomains == {<<d>> : d \in DOMAINS}

\* the for loop of parseCSV from table row r on; ix holds the column indices
RECURSIVE RowsLoop(_, _, _, _)
RowsLoop(table, r, out, ix) ==
  IF r >= Len(table) THEN out
  ELSE LET row == table[r + 1]
           dom == Trim(CellOr(row, ix.di))
           idCell == IF ix.qi >= 0
                     THEN RemoveWhiteSpace(Trim(CellOr(row, ix.qi)))
                     ELSE << >>
           rec == [id |-> IF idCell # << >> THEN idCell
                          ELSE <<"U" \o ToString(r)>>,
                   domain |-> dom,
                   question |-> Trim(CellOr(row, ix.qq)),
                   choices |-> <<Trim(CellOr(row, ix.ai)), Trim(CellOr(row, ix.bi)),
                                 Trim(CellOr(row, ix.ci)), Trim(CellOr(row, ix.dd))>>,
                   answerIndex |-> letterToIndex(CellOr(row, ix.co)),
                   explanation |-> IF ix.ex >= 0 THEN CellOr(row, ix.ex) ELSE << >>,
                   reference |-> IF ix.rf >= 0 THEN CellOr(row, ix.rf) ELSE << >>]
       IN  IF \A k \in 1..Len(row) : Trim(row[k]) = << >>
           THEN RowsLoop(table, r + 1, out, ix)
           ELSE IF ~Resolves(CellOr(row, ix.co)) \/ dom \notin allowedDomains
           THEN RowsLoop(table, r + 1, out, ix)
           ELSE RowsLoop(table, r + 1, Append(out, rec), ix)

\* variant of required that leaves out the column question
requiredNoQuestion(ix) == {ix.di, ix.ai, ix.bi, ix.ci, ix.dd, ix.co}

\* const required = [di, qq, ai, bi, ci, dd, co]
required(ix) == {ix.di, ix.qq, ix.ai, ix.bi, ix.ci, ix.dd, ix.co}

\* parseCSV(text)
parseCSV(text) ==
  LET table == parseCSVStream(text)
  IN  IF Len(table) = 0 THEN << >>
      ELSE LET header == [k \in 1..Len(table[1]) |->
                            ToLowerCase(Trim(table[1][k]))]
               ix == [qi |-> IndexOf(header, <<"id">>),
                      di |-> IndexOf(header, <<"domain">>),
                      qq |-> IndexOf(header, <<"question">>),
                      ai |-> IndexOf(header, <<"a">>),
                      bi |-> IndexOf(header, <<"b">>),
                      ci |-> IndexOf(header, <<"c">>),
                      dd |-> IndexOf(header, <<"d">>),
                      co |-> IndexOf(header, <<"correct">>),
                      ex |-> IndexOf(header, <<"explanation">>),
                      rf |-> IndexOf(header, <<"reference">>)]
           IN  IF \E i \in required(ix) : i < 0
               THEN << >>
               ELSE RowsLoop(table, 1, << >>, ix)

\* the header lines: the eight columns of the samples of runCsvTests; with
\* capitals and padding; without the required column correct; with the
\* optional column explanation; "none" stands for the empty text
HeaderKinds == {"full", "caps", "nocorrect", "ext", "none"}

FullHeader ==
  << <<"id">>, <<"domain">>, <<"question">>, <<"a">>, <<"b">>, <<"c">>,
     <<"d">>, <<"correct">> >>

HeaderCells(kind) ==
  CASE kind = "caps" ->
         << <<Space, "ID">>, <<"Domain", Space>> >> \o SubSeq(FullHeader, 3, 8)
    [] kind = "nocorrect" -> SubSeq(FullHeader, 1, 7)
    [] kind = "ext" -> FullHeader \o << <<"explanation">> >>
    [] OTHER -> FullHeader

\* a data line: id, domain, question, a, b, c, d, correct and, under the
\* header with explanation, an explanation; cut to three cells when short
RowCells(id, domain, correct, kind, short) ==
  LET all == << (IF id = "" THEN << >> ELSE <<id>>), <<domain>>, <<"Q">>,
                <<"A">>, <<"B">>, <<"C">>, <<"D">>, <<correct>> >>
             \o (IF kind = "ext" THEN << <<"E">> >> ELSE << >>)
  IN  IF short THEN SubSeq(all, 1, 3) ELSE all

\* the cells joined by commas, with an opening quote in front of cell quoteAt
LineOf(cells, quoteAt) ==
  Join([k \in 1..Len(cells) |->
          (IF k = quoteAt THEN <<Quote>> ELSE << >>) \o cells[k]], Comma)

\* the texts handed to parseCSV, by their make-up: nrows data lines after the
\* header; the cells id, domain, correct of the first data line; whether it
\* is short; the cell an unmatched quote opens (0: none); the line ends
ParseInputs ==
  {in \in [header : HeaderKinds, nrows : {0, 1, 2}, id : {"U6", ""},
            domain : {"People", "Mars"},
            correct : {"A", "2", "x", "constructor"}, short : BOOLEAN,
            quoteAt : 0..9, eol : {"lf", "crlf"}] :
     /\ in.header = "none" => (in.nrows = 0 /\ in.eol = "lf")
     /\ in.nrows = 0 =>
          (in.id = "U6" /\ in.domain = "People" /\ in.correct = "A"
           /\ ~in.short /\ in.quoteAt = 0)
     /\ in.quoteAt <=
          Len(RowCells(in.id, in.domain, in.correct, in.header, in.short))}

\* the text an input stands for
TextOf(in) ==
  LET eol == IF in.eol = "lf" THEN <<LF>> ELSE <<CR, LF>>
      row1 == RowCells(in.id, in.domain, in.correct, in.header, in.short)
      row2 == RowCells("U7", "Process", "B", in.header, FALSE)
  IN  IF in.header = "none" THEN << >>
      ELSE LineOf(HeaderCells(in.header), 0) \o eol
           \o (IF in.nrows >= 1 THEN LineOf(row1, in.quoteAt) \o eol ELSE << >>)
           \o (IF in.nrows >= 2 THEN LineOf(row2, 0) \o eol ELSE << >>)

InitParse ==
  /\ SessionIdle
  /\ callIn \in ParseInputs
  /\ callOut = << >>

\* const out = parseCSV(csv)
ParseCall ==
  /\ callOut = << >>
  /\ callOut' = <<parseCSV(TextOf(callIn))>>
  /\ UNCHANGED <<callIn, sessionVars>>

NextParse == ParseCall

SpecParse == InitParse /\ [][NextParse]_vars

\* the result is a list of records with four choices and an allowed domain,
\* at most one per data line
ListOfRecords(out) ==
  /\ Len(out) <= callIn.nrows
  /\ \A k \in 1..Len(out) :
       Len(out[k].choices) = 4 /\ out[k].domain \in allowedDomains

\* the record was made from the first data line (its id, or U1 for a blank id)
FromRow1(rec) == rec.id \in {<<"U6">>, <<"U1">>}

\* C20: parseCSV returns a list of records for every text (the empty text, a
\* header alone, a header without a required column, a short line and an
\* unmatched quote included), and a line with an unmatched opening quote
\* yields no record.
C20_SoftFail ==
  callOut # << >> =>
    /\ ListOfRecords(callOut[1])
    /\ callIn.quoteAt # 0 =>
         \A k \in 1..Len(callOut[1]) : ~FromRow1(callOut[1][k])

-----------------------------------------------------------------------------
(* parseCSV (src/unnamed/part_000 lines 687-721) on generated banks: a header*)
(* line given by its column names and data lines given by their cells        *)

\* the columns parseCSV requires, in the order of the samples of runCsvTests
RequiredCols == <<"domain", "question", "a", "b", "c", "d", "correct">>

\* seq without its k-th element
Without(seq, k) == SubSeq(seq, 1, k - 1) \o SubSeq(seq, k + 1, Len(seq))

\* the generated headers: the eight columns of the samples; the same in
\* reverse and with correct moved to the front; without id; with explanation;
\* and the eight columns less one required column
Headers ==
  LET full == <<"id">> \o RequiredCols
  IN  {full,
       [k \in 1..8 |-> full[9 - k]],
       <<"correct">> \o SubSeq(full, 1, 7),
       RequiredCols,
       full \o <<"explanation">>}
      \cup {<<"id">> \o Without(RequiredCols, k) : k \in 1..7}

\* a column name as a header cell, plain or with capitals and padding
HeaderCell(col, caps) ==
  IF ~caps THEN <<col>>
  ELSE CASE col = "id" -> <<Space, "ID">>
         [] col = "domain" -> <<"Domain", Space>>
         [] col \in {"a", "b", "c", "d"} ->
              <<CHOOSE w \in {"A", "B", "C", "D"} : LowerWord(w) = col>>
         [] OTHER -> <<Space, col, Space>>

\* the cells the generated data lines differ in
IdCells == {<<"U6">>, <<"U2">>, << >>}
DomainCells ==
  {<<"People">>, <<"Agile">>, <<"Scrum">>, <<Space, "Agile", Space>>,
   <<"people">>}
QuestionCells == {<<"Q">>, << >>}
CorrectCells ==
  {<<"a">>, <<"B">>, <<Space, "c">>, <<"D", Space>>, <<"0">>, <<"1">>,
   <<"2">>, <<"3">>, << >>, <<"e">>, <<"4">>, <<"a", "b">>, <<"0", "1">>,
   <<"-", "1">>, <<"constructor">>, <<"__proto__">>}

\* the first data line: every combination of the cells above
FirstRows ==
  [id : IdCells, domain : DomainCells, question : QuestionCells,
   correct : CorrectCells]

\* the data line after it: kept or dropped, with or without an id
SecondRows ==
  [id : {<<"U7">>, << >>}, domain : {<<"Agile">>, <<"Scrum">>},
   question : {<<"Q">>}, correct : {<<"b">>, <<"x">>}]

\* the two data lines under the generated headers
PlainRows ==
  << [id |-> <<"U6">>, domain |-> <<"People">>, question |-> <<"Q">>,
      correct |-> <<"A">>],
     [id |-> <<"U7">>, domain |-> <<"Mars">>, question |-> <<"Q">>,
      correct |-> <<"2">>] >>

\* the generated banks: every header, plain and with capitals, over no, one
\* and two plain data lines; and the eight columns over one or two data lines
BankInputs ==
  {[cols |-> h, caps |-> c, rows |-> SubSeq(PlainRows, 1, n)] :
     h \in Headers, c \in BOOLEAN, n \in 0..2}
  \cup {[cols |-> <<"id">> \o RequiredCols, caps |-> FALSE, rows |-> <<r>>] :
          r \in FirstRows}
  \cup {[cols |-> <<"id">> \o RequiredCols, caps |-> FALSE, rows |-> <<r, t>>] :
          r \in FirstRows, t \in SecondRows}

\* the cell of a data line under a column
CellUnder(row, col) ==
  CASE col = "id" -> row.id
    [] col = "domain" -> row.domain
    [] col = "question" -> row.question
    [] col = "correct" -> row.correct
    [] col = "explanation" -> <<"E">>
    [] OTHER -> <<CHOOSE w \in {"A", "B", "C", "D"} : LowerWord(w) = col>>

\* the text of a bank: the header line and the data lines, each ended by LF
BankText(in) ==
  LET line(cells) == Join(cells, Comma) \o <<LF>>
      data(r) == line([k \in 1..Len(in.cols) |-> CellUnder(in.rows[r], in.cols[k])])
      RECURSIVE lines(_)
      lines(r) == IF r > Len(in.rows) THEN << >> ELSE data(r) \o lines(r + 1)
  IN  line([k \in 1..Len(in.cols) |-> HeaderCell(in.cols[k], in.caps)])
      \o lines(1)

InitBank ==
  /\ SessionIdle
  /\ callIn \in BankInputs
  /\ callOut = << >>

\* const parsed = parseCSV(text)
ParseBank ==
  /\ callOut = << >>
  /\ callOut' = <<parseCSV(BankText(callIn))>>
  /\ UNCHANGED <<callIn, sessionVars>>

NextBank == ParseBank

SpecBank == InitBank /\ [][NextBank]_vars

\* the header has every required column
HasRequired(cols) ==
  \A k \in 1..7 : \E j \in 1..Len(cols) : cols[j] = RequiredCols[k]

\* the data lines that give a record: allowed domain after trimming and a
\* correct cell that resolves
KeptRows(rows) ==
  SelectSeq(rows, LAMBDA r : Trim(r.domain) \in allowedDomains /\ Resolves(r.correct))

\* C21: if the header (matched without regard to case, after trimming) lacks
\* one of domain, question, a, b, c, d, correct, parseCSV returns the empty
\* list whatever the data lines hold; if it has all seven, in any order, the
\* data lines are processed: there is one record per data line with an
\* allowed domain and a resolving correct cell, and its fields are the cells
\* under the columns of their names.
C21_HeaderRequirement ==
  callOut # << >> =>
    LET out == callOut[1]
        kept == KeptRows(callIn.rows)
    IN  IF ~HasRequired(callIn.cols) THEN out = << >>
        ELSE /\ Len(out) = Len(kept)
             /\ \A k \in 1..Len(out) :
                  /\ out[k].domain = Trim(kept[k].domain)
                  /\ out[k].question = Trim(kept[k].question)
                  /\ out[k].choices = << <<"A">>, <<"B">>, <<"C">>, <<"D">> >>
                  /\ out[k].answerIndex = letterToIndex(kept[k].correct)

\* a header in another order, with capitals and padding, gave a record
C21_Witness ==
  /\ callOut # << >>
  /\ callIn.caps
  /\ callIn.cols[1] = "correct"
  /\ Len(callOut[1]) = 1
  /\ callOut[1][1].domain = <<"People">>

\* the correct cell names an index: a, b, c, d or one digit 0..3 after
\* trimming and lower-casing
NamesIndex(cell) == ToLowerCase(Trim(cell)) \in LetterKeys \cup DigitKeys

\* the numbers of the data lines with an allowed domain after trimming and a
\* correct cell that names an index
AcceptedRows(rows) ==
  SelectSeq([r \in 1..Len(rows) |-> r],
            LAMBDA r : Trim(rows[r].domain) \in allowedDomains
                       /\ NamesIndex(rows[r].correct))

\* the id of the record of data line r: its id cell, or U and the line
\* number if the cell is blank or the header has no column id
RowId(in, r) ==
  IF in.rows[r].id # << >> /\ \E j \in 1..Len(in.cols) : in.cols[j] = "id"
  THEN in.rows[r].id
  ELSE <<"U" \o ToString(r)>>

\* C22: under a complete header the records are those of the data lines
\* whose trimmed domain is People, Process, Business or Agile and whose
\* correct cell resolves to an index, in order (a line with domain Scrum
\* gives none, one with Agile does); whether a line gives a record does not
\* depend on the other lines.
C22_RowAcceptance ==
  (callOut # << >> /\ HasRequired(callIn.cols)) =>
    LET acc == AcceptedRows(callIn.rows)
    IN  [k \in 1..Len(callOut[1]) |-> callOut[1][k].id]
          = [k \in 1..Len(acc) |-> RowId(callIn, acc[k])]

\* the index a correct cell names: a, b, c, d are 0, 1, 2, 3 and a digit is
\* itself
NamedIndex(cell) ==
  LET t == ToLowerCase(Trim(cell))
      k == CHOOSE n \in 0..3 :
             t \in {<<(<<"a", "b", "c", "d">>)[n + 1]>>, <<ToString(n)>>}
  IN  k

\* C23: after trimming and lower-casing, a correct cell a, b, c, d resolves
\* to 0, 1, 2, 3 and a digit 0..3 to itself; a line with any other correct
\* cell (empty, e, 4, ab, 01, -1, ...) gives no record, so the answerIndex of
\* every record is in 0..3.
C23_CorrectResolution ==
  (callOut # << >> /\ HasRequired(callIn.cols)) =>
    /\ \A k \in 1..Len(callOut[1]) : callOut[1][k].answerIndex \in 0..3
    /\ Len(callIn.rows) = 1 =>
         IF NamesIndex(callIn.rows[1].correct)
         THEN \A k \in 1..Len(callOut[1]) :
                callOut[1][k].answerIndex = NamedIndex(callIn.rows[1].correct)
         ELSE callOut[1] = << >>

\* C24: every record parseCSV returns has a domain from the allowed set, a
\* non-empty question, exactly four choices and an answerIndex that is an
\* index into the choices.
C24_NormalizedBank ==
  callOut # << >> =>
    \A k \in 1..Len(callOut[1]) :
      /\ callOut[1][k].domain \in allowedDomains
      /\ callOut[1][k].question # << >>
      /\ Len(callOut[1][k].choices) = 4
      /\ callOut[1][k].answerIndex \in 0..(Len(callOut[1][k].choices) - 1)

\* the non-blank id cells of the data lines are pairwise distinct
IdCellsDistinct(rows) ==
  \A r, t \in 1..Len(rows) :
    (r # t /\ rows[r].id # << >> /\ rows[t].id # << >>) => rows[r].id # rows[t].id

\* C25: the id of every record is the id cell of its data line, or U and the
\* number of the line for a blank or absent id; and the records of one call
\* have pairwise distinct ids whenever the non-blank id cells are pairwise
\* distinct.
C25_UniqueIds ==
  (callOut # << >> /\ IdCellsDistinct(callIn.rows)) =>
    /\ \A k \in 1..Len(callOut[1]) :
         \E r \in 1..Len(callIn.rows) : callOut[1][k].id = RowId(callIn, r)
    /\ \A j, k \in 1..Len(callOut[1]) :
         j # k => callOut[1][j].id # callOut[1][k].id

-----------------------------------------------------------------------------
(* exportSummary (src/unnamed/part_001 lines 151-171): the rows handed to    *)
(* toCSV.  Cells are strings.                                                *)

\* rows[0] of exportSummary
ExportHeader ==
  <<"id", "domain", "first_try_correct", "tries", "time_ms", "chosen",
    "question", "correct", "explanation">>

\* question.question of a bank question, which the bank records of the model
\* do not carry: a text of its own per question
StemOf(question) == "stem of " \o question.id

\* question.choices[i]: a text of its own per question and index, undefined
\* (here "") when i is no index into the choices
ChoiceTextOf(question, i) ==
  IF i \in 0..(question.numChoices - 1)
  THEN question.id \o " choice " \o ToString(i)
  ELSE ""

\* String(r.timeMs): the digits of a clock difference, which the model does
\* not track
TimeMsCell == "time_ms digits"

\* r.chosenHistory.join("|")
RECURSIVE JoinBar(_)
JoinBar(hist) ==
  IF hist = << >> THEN ""
  ELSE IF Len(hist) = 1 THEN ToString(hist[1])
  ELSE ToString(hist[1]) \o "|" \o JoinBar(Tail(hist))

\* the row exportSummary pushes for a session question
ExportRow(question) ==
  LET has == question.id \in DOMAIN results
      r == results[question.id]
  IN  <<question.id,
        question.domain,
        IF has THEN (IF r.firstTryCorrect THEN "true" ELSE "false") ELSE "",
        IF has THEN ToString(r.tries) ELSE "",
        IF has THEN TimeMsCell ELSE "",
        IF has THEN JoinBar(r.chosenHistory) ELSE "",
        StemOf(question),
        ChoiceTextOf(question, correctIndex(question)),
        "">>

\* variant of exportRows with rows for the answered questions only
exportRowsAnswered ==
  <<ExportHeader>>
  \o [k \in 1..Len(SelectSeq(sessionQs, LAMBDA x : x.id \in DOMAIN results)) |->
        ExportRow(SelectSeq(sessionQs, LAMBDA x : x.id \in DOMAIN results)[k])]

\* rows after sessionQs.forEach(...)
exportRows ==
  <<ExportHeader>> \o [k \in 1..Len(sessionQs) |-> ExportRow(sessionQs[k])]

\* Export CSV button (disabled={!finished && !started}) -> exportSummary()
ExportSummary ==
  /\ started \/ finished
  /\ callOut' = <<exportRows>>
  /\ UNCHANGED <<callIn, sessionVars>>

NextExport ==
  \/ \E b \in FetchResults : LoadDefaultBank(b)
  \/ \E m \in Modes : SetMode(m)
  \/ startSession
  \/ \E c \in ChoiceIdxs : onChoice(c)
  \/ NextClick
  \/ TimerFire
  \/ ExportSummary

SpecExport == Init /\ [][NextExport]_vars

-----------------------------------------------------------------------------
(* handleUpload (src/unnamed/part_001 lines 130-149).  callIn holds the files*)
(* whose FileReader has not called onload yet, callOut what each onload      *)
(* showed the user ("alert" or "quiet").  Banks are lists of records as      *)
(* parseCSV makes them.                                                      *)

\* uploads per behaviour
MaxUploads == 2

\* the array a well-formed bank file holds
JsonBank ==
  << [id |-> <<"J1">>, domain |-> <<"Process">>, question |-> <<"Q">>,
      choices |-> << <<"A">>, <<"B">>, <<"C">>, <<"D">> >>, answerIndex |-> 1,
      explanation |-> << >>, reference |-> << >>] >>

\* JSON texts, each a word of its own: the bank array, the empty array, an
\* object, and a text cut off after its first character
JsonTexts == {<<"[{bank}]">>, <<"[]">>, <<"{}">>, <<"[">>}

\* CSV texts: a bank of one good line, and a header without the column correct
CsvTexts ==
  {BankText([cols |-> <<"id">> \o RequiredCols, caps |-> FALSE,
             rows |-> SubSeq(PlainRows, 1, 1)]),
   BankText([cols |-> <<"id">> \o SubSeq(RequiredCols, 1, 6), caps |-> FALSE,
             rows |-> SubSeq(PlainRows, 1, 1)])}

\* the files a user can pick: a name with its extension in either case, and a
\* content that need not fit the name; the empty file included
UploadFiles ==
  [name : {"bank.json", "BANK.JSON", "bank.csv"},
   text : JsonTexts \cup CsvTexts \cup {<< >>}]

\* file.name.toLowerCase().endsWith(".json")
IsJsonName(name) == name \in {"bank.json", "BANK.JSON"}

\* JSON.parse(text): throws (ok = FALSE) on every text that is not JSON
JSONparse(text) ==
  CASE text = <<"[{bank}]">> -> [ok |-> TRUE, isArray |-> TRUE, value |-> JsonBank]
    [] text = <<"[]">> -> [ok |-> TRUE, isArray |-> TRUE, value |-> << >>]
    [] text = <<"{}">> -> [ok |-> TRUE, isArray |-> FALSE, value |-> << >>]
    [] OTHER -> [ok |-> FALSE, isArray |-> FALSE, value |-> << >>]

\* variant of AfterOnload in which the catch block empties the bank
AfterOnloadClearing(file, bank) ==
  IF IsJsonName(file.name)
  THEN LET p == JSONparse(file.text)
       IN  IF ~p.ok THEN [bank |-> << >>, shown |-> "alert"]
           ELSE IF p.isArray THEN [bank |-> p.value, shown |-> "quiet"]
           ELSE [bank |-> bank, shown |-> "quiet"]
  ELSE LET qs == parseCSV(file.text)
       IN  [bank |-> IF Len(qs) > 0 THEN qs ELSE bank, shown |-> "quiet"]

\* reader.onload: the bank after it and what the user is shown
AfterOnload(file, bank) ==
  IF IsJsonName(file.name)
  THEN LET p == JSONparse(file.text)
       IN  IF ~p.ok THEN [bank |-> bank, shown |-> "alert"]
           ELSE IF p.isArray THEN [bank |-> p.value, shown |-> "quiet"]
           ELSE [bank |-> bank, shown |-> "quiet"]
  ELSE LET qs == parseCSV(file.text)
       IN  [bank |-> IF Len(qs) > 0 THEN qs ELSE bank, shown |-> "quiet"]

InitUpload ==
  /\ SessionIdle
  /\ callIn = << >>
  /\ callOut = << >>

\* <input type="file" onChange={handleUpload}> in the setup section:
\* reader.readAsText(file)
handleUpload(file) ==
  /\ SetupShown
  /\ Len(callIn) + Len(callOut) < MaxUploads
  /\ callIn' = Append(callIn, file)
  /\ UNCHANGED <<callOut, sessionVars>>

\* reader.onload of the oldest pending read
ReaderOnload ==
  /\ callIn # << >>
  /\ allQuestions' = AfterOnload(Head(callIn), allQuestions).bank
  /\ callOut' = Append(callOut, AfterOnload(Head(callIn), allQuestions).shown)
  /\ callIn' = Tail(callIn)
  /\ UNCHANGED <<loadPending, selectedDomains, mode, sessionSize, seed,
                 sessionQs, idx, started, finished, eliminated, chosenHistory,
                 firstTryCorrect, results, flagged, timers, submitted>>

NextUpload ==
  \/ \E file \in UploadFiles : handleUpload(file)
  \/ ReaderOnload

SpecUpload == InitUpload /\ [][NextUpload]_vars

\* the content of the file was parsed: a JSON array under a name in .json, a
\* CSV text with at least one record under any other name
ParsedOk(file) ==
  IF IsJsonName(file.name)
  THEN JSONparse(file.text).ok /\ JSONparse(file.text).isArray
  ELSE Len(parseCSV(file.text)) > 0

\* C27: when the content of an uploaded .json file is no JSON text, onload
\* raises an alert and leaves the bank as it was; an onload changes the bank
\* only when the content was parsed.
C27_UploadIsolated ==
  [][ReaderOnload =>
      /\ (IsJsonName(Head(callIn).name) /\ ~JSONparse(Head(callIn).text).ok) =>
           (allQuestions' = allQuestions /\ callOut' = Append(callOut, "alert"))
      /\ allQuestions' # allQuestions => ParsedOk(Head(callIn))]_vars

\* a bank was uploaded, and an upload after it that is no JSON text raised an
\* alert and left the bank in place
C27_Witness ==
  /\ callOut = <<"quiet", "alert">>
  /\ allQuestions = JsonBank

-----------------------------------------------------------------------------
(* The default bank load of the v2.1 variant (src/unnamed/part_000 lines     *)
(* 769-787), fetch by fetch.  callIn holds the outcomes of the fetches made  *)
(* so far; loadPending is true until the async function has returned.        *)

\* outcomes of fetch("/questions.json") and resJ.json()
JsonFetches ==
  {[kind |-> k, text |-> << >>] : k \in {"rejected", "notok"}}
  \cup {[kind |-> "ok", text |-> t] : t \in JsonTexts \cup CsvTexts}

\* outcomes of fetch("/questions.csv") and res.text()
CsvFetches ==
  {[kind |-> k, text |-> << >>] : k \in {"rejected", "notok"}}
  \cup {[kind |-> "ok", text |-> t] : t \in CsvTexts \cup {<< >>, <<"[]">>}}

\* resJ.ok, resJ.json() does not throw, Array.isArray(arr) && arr.length
JsonUsable(res) ==
  /\ res.kind = "ok"
  /\ JSONparse(res.text).ok
  /\ JSONparse(res.text).isArray
  /\ Len(JSONparse(res.text).value) > 0

\* variant of CsvUsable without the test qs.length > 0
CsvUsableAnyLength(res) == res.kind = "ok"

\* res.ok and qs.length > 0
CsvUsable(res) == res.kind = "ok" /\ Len(parseCSV(res.text)) > 0

\* the useState initial values of the v2.1 component, no fetch made yet
InitLoad ==
  /\ allQuestions = starterQuestions
  /\ loadPending = TRUE
  /\ selectedDomains = DOMAINS
  /\ mode = "practice"
  /\ sessionSize = 40
  /\ seed = 42
  /\ sessionQs = << >>
  /\ idx = 0
  /\ started = FALSE
  /\ finished = FALSE
  /\ eliminated = {}
  /\ chosenHistory = << >>
  /\ firstTryCorrect = "null"
  /\ results = NoResults
  /\ flagged = {}
  /\ timers = << >>
  /\ submitted = << >>
  /\ callIn = << >>
  /\ callOut = << >>

\* the first try block: await fetch("/questions.json"), await resJ.json()
FetchJson(res) ==
  /\ loadPending
  /\ callIn = << >>
  /\ callIn' = <<res>>
  /\ IF JsonUsable(res)
     THEN allQuestions' = JSONparse(res.text).value /\ loadPending' = FALSE
     ELSE UNCHANGED <<allQuestions, loadPending>>
  /\ UNCHANGED <<selectedDomains, mode, sessionSize, seed, sessionQs, idx,
                 started, finished, eliminated, chosenHistory, firstTryCorrect,
                 results, flagged, timers, submitted, callOut>>

\* the second try block: await fetch("/questions.csv"), await res.text()
FetchCsv(res) ==
  /\ loadPending
  /\ Len(callIn) = 1
  /\ callIn' = Append(callIn, res)
  /\ loadPending' = FALSE
  /\ allQuestions' = IF CsvUsable(res) THEN parseCSV(res.text) ELSE allQuestions
  /\ UNCHANGED <<selectedDomains, mode, sessionSize, seed, sessionQs, idx,
                 started, finished, eliminated, chosenHistory, firstTryCorrect,
                 results, flagged, timers, submitted, callOut>>

NextLoad ==
  \/ \E res \in JsonFetches : FetchJson(res)
  \/ \E res \in CsvFetches : FetchCsv(res)
  \/ \E m \in Modes : SetMode(m)
  \/ \E n \in SessionSizes : SetSessionSize(n)

SpecLoad == InitLoad /\ [][NextLoad]_vars

-----------------------------------------------------------------------------
(* The component of src/src/App.jsx with CONFIG.requireEmail = true.  Its    *)
(* state is held in the session variables: bank in allQuestions, loadingBank *)
(* in loadPending, selectedDomain in selectedDomains ('All' is DOMAINS),     *)
(* practiceMode in mode, sessionQuestions in sessionQs, currentIdx in idx,   *)
(* firstTry in firstTryCorrect, disabledChoices in eliminated; callIn is the *)
(* record of email, consent and error.  showInterstitial stays false: a      *)
(* session here has fewer than 10 questions.                                 *)

email == callIn.email
consent == callIn.consent
error == callIn.error

\* localStorage.getItem('projectcoach_email') || '' at mount
StoredEmails == {"", "you@example.com"}

\* values of the email input while the user types
TypedEmails == {"", "y", "you@example.com"}

\* what parseCSV delivers at mount: no question, or two
GateBank ==
  << [id |-> "Q1", domain |-> "People", choices |-> ChoicesOf(4),
      answerIndex |-> 1],
     [id |-> "Q2", domain |-> "Process", choices |-> ChoicesOf(4),
      answerIndex |-> 3] >>

\* variant of emailSubmitted with CONFIG.requireEmail = false
emailSubmittedNoGate == TRUE

\* const emailSubmitted = CONFIG.requireEmail ? email && consent : true
emailSubmitted == email # "" /\ consent

\* the views, in the order of the returns of the render
GateShown == ~loadPending /\ error = "" /\ ~emailSubmitted
ConfigShown ==
  ~loadPending /\ error = "" /\ emailSubmitted /\ ~started /\ ~finished
SessionShown ==
  ~loadPending /\ error = "" /\ emailSubmitted /\ started /\ ~finished
SummaryShown ==
  /\ ~loadPending /\ error = "" /\ emailSubmitted
  /\ ~(~started /\ ~finished) /\ ~(started /\ ~finished) /\ finished

\* the orders shuffle(pool, seed) can give for seed = Date.now(): the clock
\* value is not known, so every order of the pool
OrdersOf(pool) ==
  {p \in [1..Len(pool) -> {pool[k] : k \in 1..Len(pool)}] :
     \A j, k \in 1..Len(pool) : j # k => p[j] # p[k]}

InitGate ==
  /\ allQuestions = << >>
  /\ loadPending = TRUE
  /\ selectedDomains = DOMAINS
  /\ mode = "practice"
  /\ sessionSize = 20
  /\ seed = 42
  /\ sessionQs = << >>
  /\ idx = 0
  /\ started = FALSE
  /\ finished = FALSE
  /\ eliminated = {}
  /\ chosenHistory = << >>
  /\ firstTryCorrect = "true"
  /\ results = NoResults
  /\ flagged = {}
  /\ timers = << >>
  /\ submitted = << >>
  /\ callIn \in [email : StoredEmails, consent : BOOLEAN, error : {""}]
  /\ callOut = << >>

\* loadCSV: setBank(qs) and, in finally, setLoadingBank(false)
LoadCsvDone(qs) ==
  /\ loadPending
  /\ allQuestions' = qs
  /\ loadPending' = FALSE
  /\ UNCHANGED <<selectedDomains, mode, sessionSize, seed, sessionQs, idx,
                 started, finished, eliminated, chosenHistory, firstTryCorrect,
                 results, flagged, timers, submitted, callVars>>

\* loadCSV: the catch block, then setLoadingBank(false)
LoadCsvFailed ==
  /\ loadPending
  /\ callIn' = [callIn EXCEPT !.error = "Failed to load questions."]
  /\ loadPending' = FALSE
  /\ UNCHANGED <<allQuestions, selectedDomains, mode, sessionSize, seed,
                 sessionQs, idx, started, finished, eliminated, chosenHistory,
                 firstTryCorrect, results, flagged, timers, submitted, callOut>>

\* the email input of the gating view: setEmail(e.target.value)
SetEmail(v) ==
  /\ GateShown
  /\ v # email
  /\ callIn' = [callIn EXCEPT !.email = v]
  /\ UNCHANGED <<sessionVars, callOut>>

\* the checkbox of the gating view: setConsent(e.target.checked)
SetConsent ==
  /\ GateShown
  /\ callIn' = [callIn EXCEPT !.consent = ~consent]
  /\ UNCHANGED <<sessionVars, callOut>>

\* the mode radios of the configuration screen
SetPracticeMode(m) ==
  /\ ConfigShown
  /\ m # mode
  /\ mode' = m
  /\ UNCHANGED <<allQuestions, loadPending, selectedDomains, sessionSize, seed,
                 sessionQs, idx, started, finished, eliminated, chosenHistory,
                 firstTryCorrect, results, flagged, timers, submitted, callVars>>

\* Start Practice -> beginSession(), which returns early on an empty pool
beginSessionApp ==
  /\ ConfigShown
  /\ Len(allQuestions) # 0
  /\ Len(filtered) # 0
  /\ \E shuffled \in OrdersOf(filtered) :
     \E orders \in [1..Len(filtered) ->
                      {shuffleLcg(<<0, 1, 2, 3>>, r, << >>) : r \in RandomDraws}] :
       LET pick == Slice0(shuffled, MathMin(sessionSize, Len(shuffled)))
       IN  sessionQs' =
             [k \in 1..Len(pick) |->
                [pick[k] EXCEPT
                   !.choices = [c \in 1..4 |-> pick[k].choices[orders[k][c] + 1]],
                   !.answerIndex = IndexOf(orders[k], pick[k].answerIndex)]]
  /\ results' = NoResults
  /\ eliminated' = {}
  /\ firstTryCorrect' = "true"
  /\ idx' = 0
  /\ started' = TRUE
  /\ finished' = FALSE
  /\ submitted' = << >>
  /\ UNCHANGED <<allQuestions, loadPending, selectedDomains, mode, sessionSize,
                 seed, chosenHistory, flagged, timers, callVars>>

\* variant of nextQuestion() without setFirstTry(true)
nextQuestionAppKeepFirstTry ==
  IF idx + 1 >= Len(sessionQs)
  THEN /\ finished' = TRUE
       /\ started' = FALSE
       /\ UNCHANGED <<idx, firstTryCorrect, eliminated>>
  ELSE /\ idx' = idx + 1
       /\ eliminated' = {}
       /\ UNCHANGED <<started, finished, firstTryCorrect>>

\* nextQuestion() of App.jsx
nextQuestionApp ==
  IF idx + 1 >= Len(sessionQs)
  THEN /\ finished' = TRUE
       /\ started' = FALSE
       /\ UNCHANGED <<idx, firstTryCorrect, eliminated>>
  ELSE /\ idx' = idx + 1
       /\ firstTryCorrect' = "true"
       /\ eliminated' = {}
       /\ UNCHANGED <<started, finished>>

\* choice button (disabled when in disabledChoices) -> handleAnswer(choiceIdx)
handleAnswer(choiceIdx) ==
  /\ SessionShown
  /\ choiceIdx \notin eliminated
  /\ LET qid == sessionQs[idx + 1].id
         entry == IF mode = "practice"
                  THEN [selected |-> choiceIdx, firstTry |-> firstTryCorrect]
                  ELSE [selected |-> choiceIdx]
         recorded == [id \in DOMAIN results \cup {qid} |->
                        IF id = qid THEN entry ELSE results[id]]
     IN  IF mode = "practice" /\ choiceIdx # sessionQs[idx + 1].answerIndex
         THEN /\ firstTryCorrect' = "false"
              /\ eliminated' = eliminated \cup {choiceIdx}
              /\ UNCHANGED <<results, idx, started, finished>>
         ELSE /\ results' = recorded
              /\ nextQuestionApp
  /\ submitted' = Append(submitted, [id |-> sessionQs[idx + 1].id,
                                     choice |-> choiceIdx])
  /\ UNCHANGED <<allQuestions, loadPending, selectedDomains, mode, sessionSize,
                 seed, sessionQs, chosenHistory, flagged, timers, callVars>>

\* New Session on the summary
NewSession ==
  /\ SummaryShown
  /\ finished' = FALSE
  /\ started' = FALSE
  /\ results' = NoResults
  /\ UNCHANGED <<allQuestions, loadPending, selectedDomains, mode, sessionSize,
                 seed, sessionQs, idx, eliminated, chosenHistory,
                 firstTryCorrect, flagged, timers, submitted, callVars>>

\* The Continue button of the gating view (submitEmail) is disabled exactly
\* when the gating view is rendered, so it gives no step.
NextGate ==
  \/ \E qs \in {<< >>, GateBank} : LoadCsvDone(qs)
  \/ LoadCsvFailed
  \/ \E v \in TypedEmails : SetEmail(v)
  \/ SetConsent
  \/ \E m \in Modes : SetPracticeMode(m)
  \/ beginSessionApp
  \/ \E c \in ChoiceIdxsV21 : handleAnswer(c)
  \/ NewSession

SpecGate == InitGate /\ [][NextGate]_vars

\* C29: with CONFIG.requireEmail = true, whenever the configuration screen is
\* rendered (a session can be started) or a session is started, the email is
\* non-empty and consent is true.
C29_EmailGate ==
  (ConfigShown \/ started) => (email # "" /\ consent)

\* a session was started by a user who got past the gate by typing
C29_Witness ==
  /\ started
  /\ idx = 1
  /\ email = "y"
  /\ consent

\* the submissions of the session so far, in order, are kept in submitted
\* (history): one [id, choice] per call of handleAnswer
WrongBefore(qid) ==
  \E k \in 1..Len(submitted) :
    /\ submitted[k].id = qid
    /\ \E j \in 1..Len(sessionQs) :
         sessionQs[j].id = qid /\ submitted[k].choice # sessionQs[j].answerIndex

\* C31: in practice mode the result stored for a question has firstTry = true
\* if and only if no wrong choice was submitted for that question before the
\* correct one; and firstTry is true after every advance to another question
\* and after every beginSession.
C31_FirstTry ==
  /\ [](mode = "practice" =>
          \A qid \in DOMAIN results :
            (results[qid].firstTry = "true") <=> ~WrongBefore(qid))
  /\ [][(idx' # idx \/ (~started /\ started')) => firstTryCorrect' = "true"]_vars

\* the first question was answered after a wrong choice, the second at once
C31_Witness ==
  /\ mode = "practice"
  /\ finished
  /\ Len(sessionQs) = 2
  /\ results[sessionQs[1].id].firstTry = "false"
  /\ results[sessionQs[2].id].firstTry = "true"

-----------------------------------------------------------------------------
(* parseCSVStream (src/unnamed/part_000 lines 660-685) on every text up to   *)
(* MaxTextLen characters                                                     *)

\* the longest generated text
MaxTextLen == 5

\* double quote, comma, LF, CR, an ordinary character and a space
TextAlphabet == {Quote, Comma, LF, CR, "x", Space}

GeneratedTexts == UNION {[1..n -> TextAlphabet] : n \in 0..MaxTextLen}

InitTokenize ==
  /\ SessionIdle
  /\ callIn \in [text : GeneratedTexts]
  /\ callOut = << >>

\* const table = parseCSVStream(text)
TokenizeText ==
  /\ callOut = << >>
  /\ callOut' = <<parseCSVStream(callIn.text)>>
  /\ UNCHANGED <<callIn, sessionVars>>

NextTokenize == TokenizeText

SpecTokenize == InitTokenize /\ [][NextTokenize]_vars

\* the rules read character by character: what each character of s is when
\* the scan reaches it inside (inQ) or outside quotes: a literal character of
\* a field, a field separator, a row terminator, or nothing (a quote that
\* toggles, the LF of a CR LF)
RECURSIVE RuleTokens(_, _)
RuleTokens(s, inQ) ==
  IF s = << >> THEN << >>
  ELSE LET c == Head(s)
           rest == Tail(s)
           nextIs(d) == rest # << >> /\ Head(rest) = d
       IN  IF c = Quote
           THEN IF inQ /\ nextIs(Quote)
                THEN <<[t |-> "lit", ch |-> Quote]>> \o RuleTokens(Tail(rest), inQ)
                ELSE RuleTokens(rest, ~inQ)
           ELSE IF inQ \/ c \notin {Comma, LF, CR}
           THEN <<[t |-> "lit", ch |-> c]>> \o RuleTokens(rest, inQ)
           ELSE IF c = Comma
           THEN <<[t |-> "sep", ch |-> c]>> \o RuleTokens(rest, inQ)
           ELSE <<[t |-> "eol", ch |-> c]>>
                \o RuleTokens(IF c = CR /\ nextIs(LF) THEN Tail(rest) ELSE rest, inQ)

\* the pieces of a token sequence between the tokens of kind t
RECURSIVE SplitAt(_, _, _)
SplitAt(tokens, t, piece) ==
  IF tokens = << >> THEN <<piece>>
  ELSE IF Head(tokens).t = t
       THEN <<piece>> \o SplitAt(Tail(tokens), t, << >>)
       ELSE SplitAt(Tail(tokens), t, Append(piece, Head(tokens)))

\* the table the rules give: the rows are the pieces between terminators,
\* the fields of a row the pieces between separators, and a row is emitted
\* if at least one of its fields is non-empty, the trailing one included
RuleTable(text) ==
  LET rowsOf == SplitAt(RuleTokens(text, FALSE), "eol", << >>)
      fieldsOf(r) == SplitAt(rowsOf[r], "sep", << >>)
      row(r) == [f \in 1..Len(fieldsOf(r)) |->
                   [k \in 1..Len(fieldsOf(r)[f]) |-> fieldsOf(r)[f][k].ch]]
      all == [r \in 1..Len(rowsOf) |-> row(r)]
  IN  SelectSeq(all, LAMBDA r : \E f \in 1..Len(r) : r[f] # << >>)

\* C30: for every text over double quote, comma, LF, CR, an ordinary
\* character and a space, parseCSVStream returns the table of the rules: a
\* quote inside a quoted field followed by a quote is one literal quote, any
\* other quote toggles the quoted flag; comma and newline inside quotes are
\* literal; CR LF outside quotes is one terminator; a row is emitted only if
\* one of its fields is non-empty, the trailing partial row included.
C30_TokenizerConformance ==
  callOut # << >> => callOut[1] = RuleTable(callIn.text)

\* a quoted comma and a CR LF: one row with the one field ","
C30_Witness ==
  /\ callIn.text = <<Quote, Comma, Quote, CR, LF>>
  /\ callOut = << << <<<<Comma>>>> >> >>

-----------------------------------------------------------------------------
(* scoreMulti and scoreMatch (src/unnamed/part_000 lines 723-736) as the     *)
(* Check buttons call them (lines 863-898).  multiSel is the list the        *)
(* checkboxes build, matchSel the array the selects write (an element is {}  *)
(* where the array has a hole, {v} where it holds the number v; "Select..."  *)
(* writes -1).  callIn is the call [q, multiSel, matchSel], callOut the      *)
(* list of what the scoring function returned.                               *)

\* the largest choice index of a card and the largest left index of a pair
MaxIndex == 2

\* the longest multiSel and correct_indices
MaxSelLen == 3

\* the longest pairs list
MaxPairs == 2

\* new Set(arr), in insertion order
RECURSIVE NewSet(_)
NewSet(arr) ==
  IF arr = << >> THEN << >>
  ELSE LET front == NewSet(SubSeq(arr, 1, Len(arr) - 1))
           last == arr[Len(arr)]
       IN  IF \E k \in 1..Len(front) : front[k] = last THEN front
           ELSE Append(front, last)

\* set.has(i)
Has(set, i) == \E k \in 1..Len(set) : set[k] = i

\* arr.sort() on indices below 10, where the order of the decimal strings is
\* the order of the numbers
RECURSIVE SortDigits(_)
SortDigits(arr) ==
  IF arr = << >> THEN << >>
  ELSE LET k == CHOOSE j \in 1..Len(arr) :
                  /\ \A i \in 1..Len(arr) : arr[j] <= arr[i]
                  /\ \A i \in 1..(j - 1) : arr[i] # arr[j]
       IN  <<arr[k]>> \o SortDigits(Without(arr, k))

\* variant of scoreMulti that does not look at the missed choices
scoreMultiNoMissed(selection, correct) ==
  LET selSet == NewSet(selection)
      corSet == NewSet(correct)
      wrongPicked == SelectSeq(selSet, LAMBDA i : ~Has(corSet, i))
      ok == Len(wrongPicked) = 0
  IN  [correct |-> ok,
       msg |-> IF ok THEN "Correct"
               ELSE "Keep trying: remove wrong choices."]

\* function scoreMulti(selection, correct)
scoreMulti(selection, correct) ==
  LET selSet == NewSet(selection)
      corSet == NewSet(correct)
      wrongPicked == SelectSeq(selSet, LAMBDA i : ~Has(corSet, i))
      missed == SelectSeq(corSet, LAMBDA i : ~Has(selSet, i))
      ok == Len(wrongPicked) = 0 /\ Len(missed) = 0
  IN  [correct |-> ok,
       msg |-> IF ok THEN "Correct"
               ELSE IF Len(wrongPicked) # 0
               THEN "Keep trying: remove wrong choices."
               ELSE "Keep trying: select remaining correct choices."]

\* sel[l] of the matchSel array: {} for a hole or an index past the end
SelAt(sel, l) == IF l >= 0 /\ l < Len(sel) THEN sel[l + 1] ELSE {}

\* function scoreMatch(sel, pairs)
scoreMatch(sel, pairs) ==
  IF Len(sel) = 0 \/ Len(pairs) = 0 THEN FALSE
  ELSE \A k \in 1..Len(pairs) : SelAt(sel, pairs[k][1]) = {pairs[k][2]}

\* q.correct_indices || [] and q.pairs || []
CorrectIndicesOr(qn) ==
  IF "correct_indices" \in DOMAIN qn THEN qn.correct_indices ELSE << >>
PairsOr(qn) == IF "pairs" \in DOMAIN qn THEN qn.pairs ELSE << >>

\* lists of choice indices: multiSel in the order the boxes were ticked, and
\* correct_indices as a file gives them (repeats included)
IndexLists == UNION {[1..n -> 0..MaxIndex] : n \in 0..MaxSelLen}

\* what the checkboxes can build: no index twice
TickLists ==
  {l \in IndexLists : \A j, k \in 1..Len(l) : j # k => l[j] # l[k]}

\* what the selects of a card with two left and two right items can build
MatchSels == UNION {[1..n -> {{}, {0 - 1}, {0}, {1}}] : n \in 0..2}

\* the pairs lists of a file: left indices up to MaxIndex (from 2 on past
\* the end of the selection), two right items
PairLists ==
  UNION {[1..n -> {<<l, r>> : l \in 0..MaxIndex, r \in 0..1}] :
           n \in 0..MaxPairs}

ScoreCalls ==
  {[q |-> [item_type |-> "multi", correct_indices |-> c],
    multiSel |-> m, matchSel |-> << >>] : c \in IndexLists, m \in TickLists}
  \cup {[q |-> [item_type |-> "multi"], multiSel |-> m, matchSel |-> << >>] :
          m \in TickLists}
  \cup {[q |-> [item_type |-> "match", pairs |-> ps],
         multiSel |-> << >>, matchSel |-> ms] :
          ps \in PairLists, ms \in MatchSels}
  \cup {[q |-> [item_type |-> "match"], multiSel |-> << >>, matchSel |-> ms] :
          ms \in MatchSels}

InitScore ==
  /\ SessionIdle
  /\ callIn \in ScoreCalls
  /\ callOut = << >>

\* onCheckMulti: const correct = scoreMulti([...multiSel].sort(),
\* (q.correct_indices || []).slice().sort())
CheckMulti ==
  /\ callOut = << >>
  /\ callIn.q.item_type = "multi"
  /\ callOut' = <<scoreMulti(SortDigits(callIn.multiSel),
                             SortDigits(CorrectIndicesOr(callIn.q))).correct>>
  /\ UNCHANGED <<callIn, sessionVars>>

\* onCheckMatch: const ok = scoreMatch(matchSel, (q.pairs || []))
CheckMatch ==
  /\ callOut = << >>
  /\ callIn.q.item_type = "match"
  /\ callOut' = <<scoreMatch(callIn.matchSel, PairsOr(callIn.q))>>
  /\ UNCHANGED <<callIn, sessionVars>>

NextScore == CheckMulti \/ CheckMatch

SpecScore == InitScore /\ [][NextScore]_vars

\* the selection assigns right item r to left item l
Matched(sel, l, r) == l + 1 \in DOMAIN sel /\ r \in sel[l + 1]

\* C32: scoreMulti reports correct if and only if the set of selected indices
\* equals the set of correct indices, whatever the order of selection;
\* scoreMatch reports correct if and only if the selection is non-empty, the
\* pair list is non-empty and the selection matches every required pair.
C32_Scoring ==
  callOut # << >> =>
    IF callIn.q.item_type = "multi"
    THEN callOut[1] <=>
           ({callIn.multiSel[k] : k \in DOMAIN callIn.multiSel} =
            {CorrectIndicesOr(callIn.q)[k] :
               k \in DOMAIN CorrectIndicesOr(callIn.q)})
    ELSE callOut[1] <=>
           /\ callIn.matchSel # << >>
           /\ PairsOr(callIn.q) # << >>
           /\ \A k \in DOMAIN PairsOr(callIn.q) :
                Matched(callIn.matchSel, PairsOr(callIn.q)[k][1],
                        PairsOr(callIn.q)[k][2])

\* two boxes ticked in the other order than the file lists them, with a
\* repeat in the file, scored correct
C32_Witness ==
  /\ callOut = <<TRUE>>
  /\ callIn.q.item_type = "multi"
  /\ callIn.multiSel = <<2, 0>>
  /\ callIn.q.correct_indices = <<0, 2, 0>>

-----------------------------------------------------------------------------
(* The session machine of src/unnamed/part_001 with both ways a JSON array   *)
(* becomes the bank: the startup load (lines 33-51) and an uploaded .json    *)
(* file (lines 130-149).  Neither looks at the elements of the array.        *)
(* callIn holds the arrays of the files whose FileReader has not called      *)
(* onload yet, callOut the arrays the onloads have stored so far.            *)

\* an array whose question gives its answer as a 1-based position: the
\* answerIndex 3 is no index into the three choices
BankOneBased ==
  << [id |-> "Q1", domain |-> "People", answerIndex |-> 3, numChoices |-> 3] >>

\* the arrays /questions.json or an uploaded .json file can hold
JsonArrays == {Bank2, BankOneBased}

InitArrays ==
  /\ SessionIdle
  /\ callIn = << >>
  /\ callOut = << >>

\* <input type="file" onChange={handleUpload}> of the setup section, on a
\* .json file holding the array arr: reader.readAsText(file)
handleUploadJson(arr) ==
  /\ SetupShown
  /\ Len(callIn) + Len(callOut) < MaxUploads
  /\ callIn' = Append(callIn, arr)
  /\ UNCHANGED <<callOut, sessionVars>>

\* reader.onload of the oldest pending read:
\* if (Array.isArray(arr)) setAllQuestions(arr)
ReaderOnloadJson ==
  /\ callIn # << >>
  /\ allQuestions' = Head(callIn)
  /\ callOut' = Append(callOut, Head(callIn))
  /\ callIn' = Tail(callIn)
  /\ UNCHANGED <<loadPending, selectedDomains, mode, sessionSize, seed,
                 sessionQs, idx, started, finished, eliminated, chosenHistory,
                 firstTryCorrect, results, flagged, timers, submitted>>

NextArrays ==
  \/ \E b \in JsonArrays \cup {<< >>} : LoadDefaultBank(b)
  \/ \E arr \in JsonArrays : handleUploadJson(arr)
  \/ ReaderOnloadJson
  \/ \E m \in Modes : SetMode(m)
  \/ startSession
  \/ \E c \in ChoiceIdxs : onChoice(c)
  \/ NextClick
  \/ TimerFire

SpecArrays == InitArrays /\ [][NextArrays]_vars

\* C33: every question of a started session has a correct index that is an
\* index into its choices; and in practice mode, as long as the question
\* shown has no result, one of its enabled choices is the correct one.
C33_ValidCorrectIndex ==
  /\ started =>
       \A k \in 1..Len(sessionQs) :
         /\ correctIndex(sessionQs[k]) >= 0
         /\ correctIndex(sessionQs[k]) < sessionQs[k].numChoices
  /\ (QuestionShown /\ mode = "practice" /\ q.id \notin DOMAIN results) =>
       \E c \in 0..(q.numChoices - 1) :
         c \notin eliminated /\ c = correctIndex(q)

-----------------------------------------------------------------------------
\* C34: within a session of src/unnamed/part_001 a result is written once:
\* no step that keeps the record of a question id changes its tries or its
\* firstTryCorrect (startSession, which begins another session, empties
\* results).
C34_ResultWrittenOnce ==
  [][\A id \in DOMAIN results \cap DOMAIN results' :
       /\ results'[id].tries = results[id].tries
       /\ results'[id].firstTryCorrect = results[id].firstTryCorrect]_vars

-----------------------------------------------------------------------------
(* A practice session of src/unnamed/part_001 in which the user does nothing *)
(* but start sessions and click choices.  The browser runs a due timer       *)
(* callback and the user goes on clicking: weak fairness of both.            *)

NextLive ==
  \/ LoadDefaultBank(Bank2)
  \/ startSession
  \/ \E c \in ChoiceIdxs : onChoice(c)
  \/ TimerFire
  \/ BackToSettings

SpecLive ==
  /\ Init
  /\ [][NextLive]_vars
  /\ WF_vars(\E c \in ChoiceIdxs : onChoice(c))
  /\ WF_vars(TimerFire)

\* C35: a started practice session is finished in the end, when the user
\* keeps clicking an enabled choice of the question shown and every delayed
\* advance fires; and no state has started = true with no question shown and
\* no step enabled.
C35_PracticeLiveness ==
  /\ started ~> finished
  /\ [](started => (QuestionShown \/ ENABLED <<NextLive>>_vars))

-----------------------------------------------------------------------------
\* C36: once an upload has replaced the bank (callOut holds the array its
\* onload stored), the bank changes only by the onload of another upload:
\* the startup load settling later leaves it alone.
C36_UploadWins ==
  [][(callOut # << >> /\ allQuestions' # allQuestions) => ReaderOnloadJson]_vars

-----------------------------------------------------------------------------
\* the "First-try correct" count of the summary:
\* Object.values(results).filter(r => r.firstTryCorrect).length
FirstTryCount == Cardinality({id \in DOMAIN results : results[id].firstTryCorrect})

\* C37: in src/unnamed/part_001 started and finished are never both true,
\* and the keys of results are ids of questions of sessionQs, so that results
\* has no more entries than the session has questions and the first-try
\* accuracy (first-try count * 100 / session questions) is at most 100.
C37_SessionConsistency ==
  /\ ~(started /\ finished)
  /\ DOMAIN results \subseteq {sessionQs[k].id : k \in 1..Len(sessionQs)}
  /\ Cardinality(DOMAIN results) <= Len(sessionQs)
  /\ FirstTryCount * 100 <= 100 * Len(sessionQs)

\* the summary of a two-question session with both questions answered, one
\* of them at the first try
C37_Witness ==
  /\ finished
  /\ Len(sessionQs) = 2
  /\ Cardinality(DOMAIN results) = 2
  /\ FirstTryCount = 1

-----------------------------------------------------------------------------
(* useQuizEngine and its App (src/unnamed/part_000 lines 366-606).  The      *)
(* state of the hook is held in the session variables: questions in          *)
(* allQuestions, answers in results, eliminated as a map from question id to *)
(* a set of choice indices, mode with "null" for null; timers holds the      *)
(* closures of the pending exam-mode setTimeout callbacks.  exportCSV writes *)
(* no state and is left out.                                                 *)

\* at most this many exam-mode advances are pending at once
MaxPending == 3

\* const SAMPLE_QUESTIONS = [...]: useQuizEngine() is called without argument
\* and setQuestions is never called
SAMPLE_QUESTIONS ==
  << [id |-> "q1", choices |-> ChoicesOf(4), answerIndex |-> 1],
     [id |-> "q2", choices |-> ChoicesOf(4), answerIndex |-> 1] >>

\* the choices whose eliminate button is used
EliminateIdxs == {0, 1}

\* variant of clamp without the upper limit
clampNoMax(n, min, max) == IF n < min THEN min ELSE n

\* function clamp(n, min, max) { return Math.max(min, Math.min(max, n)); }
clamp(n, min, max) ==
  LET m == IF max < n THEN max ELSE n
  IN  IF min > m THEN min ELSE m

\* const total = questions.length; const current = questions[idx] ?? null
total == Len(allQuestions)
HasCurrent == idx >= 0 /\ idx < Len(allQuestions)
current == allQuestions[idx + 1]

\* the sections of the render
CardShown == started /\ HasCurrent
AllDoneShown == started /\ ~HasCurrent

\* prev[current.id] || []
EliminatedOf(map, id) == IF id \in DOMAIN map THEN map[id] ELSE {}

InitEngine ==
  /\ allQuestions = SAMPLE_QUESTIONS
  /\ loadPending = FALSE
  /\ selectedDomains = DOMAINS
  /\ mode = "null"
  /\ sessionSize = 40
  /\ seed = 42
  /\ sessionQs = << >>
  /\ idx = 0
  /\ started = FALSE
  /\ finished = FALSE
  /\ eliminated = NoResults
  /\ chosenHistory = << >>
  /\ firstTryCorrect = "null"
  /\ results = NoResults
  /\ flagged = {}
  /\ timers = << >>
  /\ submitted = << >>
  /\ callIn = << >>
  /\ callOut = << >>

\* Start Practice / Start Exam of the intro section (rendered when !started)
startPractice ==
  /\ ~started
  /\ mode' = "practice"
  /\ started' = TRUE
  /\ UNCHANGED <<allQuestions, loadPending, selectedDomains, sessionSize, seed,
                 sessionQs, idx, finished, eliminated, chosenHistory,
                 firstTryCorrect, results, flagged, timers, submitted, callVars>>

startExam ==
  /\ ~started
  /\ mode' = "exam"
  /\ started' = TRUE
  /\ UNCHANGED <<allQuestions, loadPending, selectedDomains, sessionSize, seed,
                 sessionQs, idx, finished, eliminated, chosenHistory,
                 firstTryCorrect, results, flagged, timers, submitted, callVars>>

\* Reset of the top bar (always rendered) and Restart of the end state
resetAll ==
  /\ mode' = "null"
  /\ started' = FALSE
  /\ idx' = 0
  /\ results' = NoResults
  /\ eliminated' = NoResults
  /\ UNCHANGED <<allQuestions, loadPending, selectedDomains, sessionSize, seed,
                 sessionQs, finished, chosenHistory, firstTryCorrect, flagged,
                 timers, submitted, callVars>>

\* the eliminate button of choice i on the question card
toggleEliminate(choiceIndex) ==
  /\ CardShown
  /\ LET set == EliminatedOf(eliminated, current.id)
         toggled == IF choiceIndex \in set THEN set \ {choiceIndex}
                    ELSE set \cup {choiceIndex}
     IN  eliminated' = [id \in DOMAIN eliminated \cup {current.id} |->
                          IF id = current.id THEN toggled ELSE eliminated[id]]
  /\ UNCHANGED <<allQuestions, loadPending, selectedDomains, mode, sessionSize,
                 seed, sessionQs, idx, started, finished, chosenHistory,
                 firstTryCorrect, results, flagged, timers, submitted, callVars>>

\* the button of choice i (disabled when eliminated) -> choose(i); in exam
\* mode setTimeout(() => setIdx(i => clamp(i + 1, 0, total - 1)), 150)
choose(choiceIndex) ==
  /\ CardShown
  /\ choiceIndex \notin EliminatedOf(eliminated, current.id)
  /\ results' = [id \in DOMAIN results \cup {current.id} |->
                   IF id = current.id THEN choiceIndex ELSE results[id]]
  /\ IF mode = "exam"
     THEN /\ Len(timers) < MaxPending
          /\ timers' = Append(timers, [total |-> total])
     ELSE UNCHANGED timers
  /\ UNCHANGED <<allQuestions, loadPending, selectedDomains, mode, sessionSize,
                 seed, sessionQs, idx, started, finished, eliminated,
                 chosenHistory, firstTryCorrect, flagged, submitted, callVars>>

\* the oldest pending exam-mode callback runs, with the total of its closure
AutoAdvance ==
  /\ timers # << >>
  /\ idx' = clamp(idx + 1, 0, Head(timers).total - 1)
  /\ timers' = Tail(timers)
  /\ UNCHANGED <<allQuestions, loadPending, selectedDomains, mode, sessionSize,
                 seed, sessionQs, started, finished, eliminated, chosenHistory,
                 firstTryCorrect, results, flagged, submitted, callVars>>

\* Next (disabled when idx >= total - 1)
next ==
  /\ CardShown
  /\ ~(idx >= total - 1)
  /\ idx' = clamp(idx + 1, 0, total - 1)
  /\ UNCHANGED <<allQuestions, loadPending, selectedDomains, mode, sessionSize,
                 seed, sessionQs, started, finished, eliminated, chosenHistory,
                 firstTryCorrect, results, flagged, timers, submitted, callVars>>

\* Previous (disabled when idx === 0)
prev ==
  /\ CardShown
  /\ idx # 0
  /\ idx' = clamp(idx - 1, 0, total - 1)
  /\ UNCHANGED <<allQuestions, loadPending, selectedDomains, mode, sessionSize,
                 seed, sessionQs, started, finished, eliminated, chosenHistory,
                 firstTryCorrect, results, flagged, timers, submitted, callVars>>

NextEngine ==
  \/ startPractice
  \/ startExam
  \/ resetAll
  \/ \E i \in EliminateIdxs : toggleEliminate(i)
  \/ \E i \in ChoiceIdxsV21 : choose(i)
  \/ AutoAdvance
  \/ next
  \/ prev

SpecEngine == InitEngine /\ [][NextEngine]_vars

\* C38: in useQuizEngine 0 <= idx <= total - 1 in every state, so the current
\* question is never null and the "All done" section is never rendered; and
\* a delayed exam-mode advance moves idx forward by at most one.
C38_IndexInRange ==
  /\ [](idx >= 0 /\ idx <= total - 1 /\ HasCurrent /\ ~AllDoneShown)
  /\ [][AutoAdvance => (idx' = idx \/ idx' = idx + 1)]_vars

\* three advances are pending on the last question
C38_Witness ==
  /\ started
  /\ mode = "exam"
  /\ idx = total - 1
  /\ Len(timers) = MaxPending

-----------------------------------------------------------------------------
(* shuffle of src/unnamed/part_000 lines 11-20, one pass of the for loop per *)
(* step.  callIn is the frame of the call: the seed, s as 32 bits, the copy  *)
(* a and the loop index i; callOut lists the draws made so far: i, the swap  *)
(* index j and the two 16-bit halves of s >>> 0, the numerator of the        *)
(* fraction (s >>> 0) / 2^32.                                                *)

\* the longest array shuffled step by step
MaxDrawLen == 6

\* seeds: 0, small and large ones of both signs, and the largest values
\* Math.floor(Math.random() * 1e9) and a 32-bit integer can take
DrawSeeds ==
  {0, 1, 0 - 1, 42, 0 - 42, 8192, 65536, 0 - 65536, 123456789,
   0 - 123456789, 999999999, 2147483647, 0 - 2147483647}

InitDraws ==
  /\ SessionIdle
  /\ callIn \in {[seed |-> sd, s |-> ToInt32(sd), a |-> [k \in 1..n |-> k - 1],
                  i |-> n - 1] : sd \in DrawSeeds, n \in 0..MaxDrawLen}
  /\ callOut = << >>

\* one pass of the loop: const j = Math.floor(rand() * (i + 1));
\* [a[i], a[j]] = [a[j], a[i]]; i--.  For j outside the array a[j] reads
\* undefined and the write to a[j] does not touch the elements 0..i.
Draw ==
  /\ callIn.i > 0
  /\ LET s2 == xorshift(callIn.s)
         j == SwapIndex(s2, callIn.i)
     IN  /\ callIn' =
              [callIn EXCEPT
                 !.s = s2,
                 !.i = callIn.i - 1,
                 !.a = IF j >= 0 /\ j < Len(callIn.a)
                       THEN Swap(callIn.a, callIn.i, j)
                       ELSE [callIn.a EXCEPT ![callIn.i + 1] = Undefined]]
         /\ callOut' = Append(callOut, [i |-> callIn.i, j |-> j,
                                        hi |-> BitsVal(s2, 16, 31),
                                        lo |-> BitsVal(s2, 0, 15),
                                        len |-> Len(callIn.a)])
  /\ UNCHANGED sessionVars

NextDraws == Draw

SpecDraws == InitDraws /\ [][NextDraws]_vars

\* C39: for every seed the numerator of every fraction drawn is in
\* 0..2^32 - 1 (both 16-bit halves in 0..65535), so the fraction is in [0,1);
\* the swap index j of step i is in 0..i; and i and j are indices of the
\* array, so that no element outside it is read or written.
C39_DrawBounds ==
  \A k \in 1..Len(callOut) :
    /\ callOut[k].hi >= 0 /\ callOut[k].hi <= 65535
    /\ callOut[k].lo >= 0 /\ callOut[k].lo <= 65535
    /\ callOut[k].j >= 0 /\ callOut[k].j <= callOut[k].i
    /\ callOut[k].i >= 1 /\ callOut[k].i < callOut[k].len

\* the loop has ended on the longest array for a negative seed, and one of its
\* draws had the top bit of s set and gave the last index
C39_Witness ==
  /\ callIn.seed < 0
  /\ callIn.i = 0
  /\ Len(callOut) = MaxDrawLen - 1
  /\ \E k \in 1..Len(callOut) :
       callOut[k].hi >= 32768 /\ callOut[k].j = callOut[k].i

====
